---------------------------- MODULE Spec2Model ----------------------------
(***************************************************************************)
(* A model of the training analytics of the gym tracker: unit conversion   *)
(* and volume (src/utils/calculations.py), exercise classification and     *)
(* the input ladders (src/utils/helpers.py), the session aggregation and   *)
(* the copy-into-entry-form defaulting (src/app.py) and the personal       *)
(* records (src/database/db_manager.py).                                   *)
(*                                                                         *)
(* Numbers.  The code computes with Python floats.  The model computes     *)
(* with exact rationals <<n, d>> (d > 0, lowest terms), so that two        *)
(* numbers are equal exactly when their tuples are equal.  Every factor    *)
(* of the code is kept as written (0.453592 = 453592/1000000, 2.5 = 5/2).  *)
(* Floating-point rounding is the one thing the model leaves out.          *)
(***************************************************************************)
EXTENDS Integers, Sequences, FiniteSets, TLC

VARIABLES
    \* convert_unit(value, from_unit, to_unit) and the conversion back
    cv_value, cv_from, cv_to, cv_result, cv_back, cv_pc,
    \* calculate_session_metrics(history_df, exercise_name, bodyweight)
    history_df, exercise_name, bodyweight, sorted_df, session_df, sm_pc,
    \* the caller of calculate_session_metrics: the frame as it was handed
    \* over, the dtype of the date column of the caller's frame, the number
    \* of the call and the result of the first call
    given_df, date_dtype, sm_call, first_session_df,
    \* the Python process: what its sort returned for each frame and which
    \* unit its set iteration put first for each list of units, so far
    py_sort, py_mode,
    \* get_pr_records(user_id): the workout_logs table and the result
    \* and the exercise names its first query listed
    workout_logs, exercises, pr_dict, pr_pc,
    \* render_log_workout_page: the session offered for copying, the
    \* st.session_state entries of the copy, the unit and number-of-sets
    \* widgets, the entry form as last rendered and the sets last saved
    recent_session, copied_data, copied_unit, copied_num_sets, copied_at,
    unit_radio, num_sets, form, saved_sets,
    \* calculate_1rm(weight, reps) for one weight and two rep counts
    rm_weight, rm_reps, rm_reps2, rm_result, rm_result2, rm_pc,
    \* the cookie persistence of src/src/auth.py: the st.session_state
    \* entries cookie_set_state, pending_refresh_token and user, the calls
    \* made on the cookie manager so far, the position of the script run
    \* and the number of sessions the auth server has handed out
    cookie_set_state, pending_refresh_token, user, cookie_calls, au_pc, logins

cvVars == <<cv_value, cv_from, cv_to, cv_result, cv_back, cv_pc>>
smVars == <<history_df, exercise_name, bodyweight, sorted_df, session_df, sm_pc,
            given_df, date_dtype, sm_call, first_session_df, py_sort, py_mode>>
prVars == <<workout_logs, exercises, pr_dict, pr_pc>>
fmVars == <<recent_session, copied_data, copied_unit, copied_num_sets, copied_at,
            unit_radio, num_sets, form, saved_sets>>
rmVars == <<rm_weight, rm_reps, rm_reps2, rm_result, rm_result2, rm_pc>>
auVars == <<cookie_set_state, pending_refresh_token, user, cookie_calls, au_pc,
            logins>>

-----------------------------------------------------------------------------
(* Exact rational arithmetic standing for Python's float arithmetic.       *)

RECURSIVE Gcd(_, _)
Gcd(a, b) == IF b = 0 THEN a ELSE Gcd(b, a % b)

Abs(x) == IF x < 0 THEN -x ELSE x

\* the rational n/d in lowest terms with a positive denominator
Rat(n, d) ==
    LET g == Gcd(Abs(n), Abs(d))
        s == IF d < 0 THEN -1 ELSE 1
    IN  <<(s * n) \div g, (s * d) \div g>>

Num(n) == <<n, 1>>

Zero == Num(0)

IsRat(x) == Len(x) = 2 /\ x[2] > 0 /\ Gcd(Abs(x[1]), x[2]) = 1

RAdd(a, b) ==
    LET g == Gcd(a[2], b[2])
    IN  Rat(a[1] * (b[2] \div g) + b[1] * (a[2] \div g), (a[2] \div g) * b[2])

RNeg(a) == <<-a[1], a[2]>>

RSub(a, b) == RAdd(a, RNeg(b))

\* cross-reduced before multiplying, so the factors stay small
RMul(a, b) ==
    LET g1 == Gcd(Abs(a[1]), b[2])
        g2 == Gcd(Abs(b[1]), a[2])
    IN  IF a[1] = 0 \/ b[1] = 0 THEN Zero
        ELSE <<(a[1] \div g1) * (b[1] \div g2), (a[2] \div g2) * (b[2] \div g1)>>

\* b # 0
RDiv(a, b) == RMul(a, IF b[1] < 0 THEN <<-b[2], -b[1]>> ELSE <<b[2], b[1]>>)

RLt(a, b) ==
    IF a[2] = b[2] THEN a[1] < b[1]
    ELSE LET g == Gcd(a[2], b[2])
         IN  a[1] * (b[2] \div g) < b[1] * (a[2] \div g)

RLe(a, b) == a = b \/ RLt(a, b)

RECURSIVE RSum(_)
RSum(s) == IF s = <<>> THEN Zero ELSE RAdd(Head(s), RSum(Tail(s)))

-----------------------------------------------------------------------------
(* src/utils/calculations.py                                               *)

\* 1 lb = 0.453592 kg
LB_TO_KG == Rat(453592, 1000000)

\* 1 notch = 2.5 kg
NOTCH_TO_KG == Rat(5, 2)

\* the unit strings the code names
KnownUnits == {"kg", "lb", "notch", "notch/plate"}

\* mutant: the reps == 1 early return is missing
calculate_1rm_NoSingleRep(weight, reps) ==
    IF reps <= 0 THEN weight
    ELSE RMul(weight, RAdd(Num(1), Rat(reps, 30)))

\* mutant: reps / 30 as a floor division
calculate_1rm_FloorDiv(weight, reps) ==
    IF reps <= 0 THEN weight
    ELSE IF reps = 1 THEN weight
    ELSE RMul(weight, RAdd(Num(1), Num(reps \div 30)))

\* Epley: weight * (1 + reps / 30), the weight itself for reps <= 1
calculate_1rm(weight, reps) ==
    IF reps <= 0 THEN weight
    ELSE IF reps = 1 THEN weight
    ELSE RMul(weight, RAdd(Num(1), Rat(reps, 30)))

\* mutant: an unknown source unit is taken to be kg and converted on
convert_unit_UnknownAsKg(value, from_unit, to_unit) ==
    IF from_unit = to_unit THEN value
    ELSE LET kg_value ==
                 IF from_unit = "lb" THEN RMul(value, LB_TO_KG)
                 ELSE IF from_unit = "notch" \/ from_unit = "notch/plate"
                      THEN RMul(value, NOTCH_TO_KG)
                 ELSE value
         IN  IF to_unit = "kg" THEN kg_value
             ELSE IF to_unit = "lb" THEN RDiv(kg_value, LB_TO_KG)
             ELSE IF to_unit = "notch" \/ to_unit = "notch/plate"
                  THEN RDiv(kg_value, NOTCH_TO_KG)
             ELSE kg_value

\* mutant: kg to lb divides by 0.4536, a rounded copy of the factor
convert_unit_RoundedFactor(value, from_unit, to_unit) ==
    IF from_unit = to_unit THEN value
    ELSE IF from_unit \notin KnownUnits THEN value
    ELSE LET kg_value ==
                 IF from_unit = "kg" THEN value
                 ELSE IF from_unit = "lb" THEN RMul(value, LB_TO_KG)
                 ELSE RMul(value, NOTCH_TO_KG)
         IN  IF to_unit = "kg" THEN kg_value
             ELSE IF to_unit = "lb" THEN RDiv(kg_value, Rat(4536, 10000))
             ELSE IF to_unit = "notch" \/ to_unit = "notch/plate"
                  THEN RDiv(kg_value, NOTCH_TO_KG)
             ELSE kg_value

\* mutant: only the spelling 'notch' is converted, 'notch/plate' is a unit
\* the code does not name
convert_unit_NoAlias(value, from_unit, to_unit) ==
    IF from_unit = to_unit THEN value
    ELSE IF from_unit \notin {"kg", "lb", "notch"} THEN value
    ELSE LET kg_value ==
                 IF from_unit = "kg" THEN value
                 ELSE IF from_unit = "lb" THEN RMul(value, LB_TO_KG)
                 ELSE RMul(value, NOTCH_TO_KG)
         IN  IF to_unit = "kg" THEN kg_value
             ELSE IF to_unit = "lb" THEN RDiv(kg_value, LB_TO_KG)
             ELSE IF to_unit = "notch" THEN RDiv(kg_value, NOTCH_TO_KG)
             ELSE kg_value

convert_unit(value, from_unit, to_unit) ==
    IF from_unit = to_unit THEN value
    ELSE IF from_unit \notin KnownUnits THEN value
    ELSE LET kg_value ==
                 IF from_unit = "kg" THEN value
                 ELSE IF from_unit = "lb" THEN RMul(value, LB_TO_KG)
                 ELSE RMul(value, NOTCH_TO_KG)
         IN  IF to_unit = "kg" THEN kg_value
             ELSE IF to_unit = "lb" THEN RDiv(kg_value, LB_TO_KG)
             ELSE IF to_unit = "notch" \/ to_unit = "notch/plate"
                  THEN RDiv(kg_value, NOTCH_TO_KG)
             ELSE kg_value

standardize_weight(weight, unit) == convert_unit(weight, unit, "kg")

calculate_volume(weight, reps) == RMul(weight, Num(reps))

\* mutant: the weight is not brought to kg before it is multiplied
calculate_total_volume_NoStandardize(weight, reps, unit) ==
    calculate_volume(weight, reps)

calculate_total_volume(weight, reps, unit) ==
    calculate_volume(standardize_weight(weight, unit), reps)

-----------------------------------------------------------------------------
(* src/utils/helpers.py: is_assisted_exercise.  An exercise name is a      *)
(* sequence of characters; the two CJK keywords are spelled by the code     *)
(* points of their characters.                                             *)

\* str.lower() on the letters the names and unit cells below use in upper
\* case
Lower(c) ==
    CASE c = "A" -> "a"
      [] c = "B" -> "b"
      [] c = "D" -> "d"
      [] c = "G" -> "g"
      [] c = "K" -> "k"
      [] c = "L" -> "l"
      [] c = "N" -> "n"
      [] c = "P" -> "p"
      [] c = "S" -> "s"
      [] c = "T" -> "t"
      [] OTHER -> c

LowerStr(s) == [i \in 1..Len(s) |-> Lower(s[i])]

\* Python's  keyword in s
Contains(keyword, s) ==
    \E i \in 1..(Len(s) - Len(keyword) + 1) :
        SubSeq(s, i, i + Len(keyword) - 1) = keyword

assisted_keywords ==
    { <<"a", "s", "s", "i", "s", "t", "e", "d">>,
      <<"a", "s", "s", "i", "s", "t">>,
      <<"U+6E1B", "U+91CD">>,
      <<"U+8F14", "U+52A9">> }

is_assisted_exercise(name) ==
    LET exercise_lower == LowerStr(name)
    IN  \E keyword \in assisted_keywords : Contains(keyword, exercise_lower)

-----------------------------------------------------------------------------
(* src/utils/helpers.py: the input ladders and validate_input.             *)

\* 0, 2.5 to 20 in steps of 2.5, then 25 to 200 in steps of 5
KgLadder ==
    <<Zero>> \o [k \in 1..8 |-> Rat(5 * k, 2)] \o [k \in 1..36 |-> Num((k + 4) * 5)]

\* 0, 5, 10, then 15 to 450 in steps of 5
LbLadder == <<Zero>> \o <<Num(5), Num(10)>> \o [k \in 1..88 |-> Num((k + 2) * 5)]

\* 0 to 30
NotchLadder == <<>> \o [k \in 1..31 |-> Num(k - 1)]

get_weight_options(u) ==
    IF u = "kg" THEN KgLadder
    ELSE IF u = "lb" THEN LbLadder
    ELSE NotchLadder

get_reps_options == <<0>> \o [k \in 1..30 |-> k]

validate_input(weight, reps, u) ==
    IF RLt(weight, Zero) THEN FALSE
    ELSE IF reps < 0 THEN FALSE
    ELSE IF reps = 0 /\ RLt(Zero, weight) THEN FALSE
    ELSE IF u \notin {"kg", "lb", "notch", "notch/plate"} THEN FALSE
    ELSE TRUE

-----------------------------------------------------------------------------
(* src/app.py: calculate_session_metrics.  A row of history_df is          *)
(* [date |-> <<day, time>>, weight, unit, reps].                           *)

None == <<>>

\* Python truth of the bodyweight argument: None and 0 are false
Truthy(bw) == bw # None /\ bw # Zero

TsLe(a, b) == a[1] < b[1] \/ (a[1] = b[1] /\ a[2] <= b[2])

\* mutant: the frame is taken in the order it came in
SortValues_NoSort(df) == {df}

\* history_df.sort_values('date'): the rows in ascending order of the
\* timestamp; rows with the same timestamp may come out in any order
\* (the default sort kind is not stable)
SortValues(df) ==
    LET n == Len(df)
        perms == {f \in [1..n -> 1..n] : \A i, j \in 1..n : i # j => f[i] # f[j]}
    IN  { [i \in 1..n |-> df[f[i]]] :
            f \in {g \in perms :
                     \A i \in 1..n : i < n => TsLe(df[g[i]].date, df[g[i + 1]].date)} }

\* mutant: the time component is kept
DateOf_KeepTime(ts) == ts

\* row_date.date(): the time component is dropped; the date stands for
\* midnight of its day (pd.Timestamp(current_date) when it is emitted)
DateOf(ts) == <<ts[1], 0>>

Count(seq, x) == Cardinality({i \in 1..Len(seq) : seq[i] = x})

\* max(set(session_units), key=session_units.count): a most frequent unit;
\* among equally frequent units the iteration order of the set decides,
\* which depends on the string hashes of the run
PrimaryUnits(session_sets) ==
    LET session_units == [i \in 1..Len(session_sets) |-> session_sets[i].unit]
        units == {session_units[i] : i \in 1..Len(session_units)}
    IN  IF session_units = <<>> THEN {"kg"}
        ELSE {u \in units : \A v \in units : Count(session_units, v) <= Count(session_units, u)}

\* Python's max(seq, key=...): the first element whose key no other exceeds
FirstMax(keys) ==
    CHOOSE i \in 1..Len(keys) :
        /\ \A j \in 1..Len(keys) : RLe(keys[j], keys[i])
        /\ \A j \in 1..(i - 1) : keys[j] # keys[i]

IsAssisted(name) == IF name # <<>> THEN is_assisted_exercise(name) ELSE FALSE

\* mutant: the max set is the one with the greatest logged weight
AssistedEntry_RawMax(current_date, session_sets, bw, primary_unit) ==
    LET bodyweight_in_unit == convert_unit(bw, "lb", primary_unit)
        eff == [i \in 1..Len(session_sets) |->
                   RSub(bodyweight_in_unit, session_sets[i].weight)]
        max_set == session_sets[FirstMax([i \in 1..Len(session_sets) |->
                                             session_sets[i].weight])]
        max_weight == RSub(bodyweight_in_unit, max_set.weight)
        max_reps == max_set.reps
    IN  [date |-> current_date,
         max_weight |-> max_weight,
         max_reps |-> max_reps,
         total_volume |->
             RSum([i \in 1..Len(session_sets) |->
                      calculate_total_volume(eff[i], session_sets[i].reps, primary_unit)]),
         max_1rm |-> calculate_1rm(max_weight, max_reps),
         sets |-> Len(session_sets),
         unit |-> primary_unit]

\* the branch for an assisted exercise with a bodyweight, given the
\* primary unit the run picked
AssistedEntry(current_date, session_sets, bw, primary_unit) ==
    LET bodyweight_in_unit == convert_unit(bw, "lb", primary_unit)
        eff == [i \in 1..Len(session_sets) |->
                   RSub(bodyweight_in_unit, session_sets[i].weight)]
        max_set == session_sets[FirstMax(eff)]
        max_weight == RSub(bodyweight_in_unit, max_set.weight)
        max_reps == max_set.reps
    IN  [date |-> current_date,
         max_weight |-> max_weight,
         max_reps |-> max_reps,
         total_volume |->
             RSum([i \in 1..Len(session_sets) |->
                      calculate_total_volume(eff[i], session_sets[i].reps, primary_unit)]),
         max_1rm |-> calculate_1rm(max_weight, max_reps),
         sets |-> Len(session_sets),
         unit |-> primary_unit]

\* mutant: max_reps is the greatest reps of the session, whatever set it is in
RawEntry_IndependentMax(current_date, session_sets, primary_unit) ==
    LET max_set == session_sets[FirstMax([i \in 1..Len(session_sets) |->
                                             session_sets[i].weight])]
        max_weight == max_set.weight
        max_reps == session_sets[FirstMax([i \in 1..Len(session_sets) |->
                                              Num(session_sets[i].reps)])].reps
    IN  [date |-> current_date,
         max_weight |-> max_weight,
         max_reps |-> max_reps,
         total_volume |->
             RSum([i \in 1..Len(session_sets) |->
                      calculate_total_volume(session_sets[i].weight,
                                             session_sets[i].reps,
                                             session_sets[i].unit)]),
         max_1rm |-> calculate_1rm(max_weight, max_reps),
         sets |-> Len(session_sets),
         unit |-> primary_unit]

\* the other branch
RawEntry(current_date, session_sets, primary_unit) ==
    LET max_set == session_sets[FirstMax([i \in 1..Len(session_sets) |->
                                             session_sets[i].weight])]
        max_weight == max_set.weight
        max_reps == max_set.reps
    IN  [date |-> current_date,
         max_weight |-> max_weight,
         max_reps |-> max_reps,
         total_volume |->
             RSum([i \in 1..Len(session_sets) |->
                      calculate_total_volume(session_sets[i].weight,
                                             session_sets[i].reps,
                                             session_sets[i].unit)]),
         max_1rm |-> calculate_1rm(max_weight, max_reps),
         sets |-> Len(session_sets),
         unit |-> primary_unit]

\* mutant: a missing bodyweight is taken to be 135 lb
LoopSessionEntries_DefaultBodyweight(current_date, session_sets, name, bw) ==
    LET is_assisted == IsAssisted(name)
    IN  IF is_assisted
        THEN {AssistedEntry(current_date, session_sets,
                            IF Truthy(bw) THEN bw ELSE Num(135), u) :
                 u \in PrimaryUnits(session_sets)}
        ELSE {RawEntry(current_date, session_sets, u) :
                 u \in PrimaryUnits(session_sets)}

\* the entries the loop body can append for a finished date group
LoopSessionEntries(current_date, session_sets, name, bw) ==
    LET is_assisted == IsAssisted(name)
    IN  IF is_assisted /\ Truthy(bw)
        THEN {AssistedEntry(current_date, session_sets, bw, u) :
                 u \in PrimaryUnits(session_sets)}
        ELSE {RawEntry(current_date, session_sets, u) :
                 u \in PrimaryUnits(session_sets)}

\* mutant: the sets without reps are left out when there are others
LastSessionEntries_SkipZeroReps(current_date, session_sets, name, bw) ==
    LET is_assisted == IsAssisted(name)
        with_reps == SelectSeq(session_sets, LAMBDA x : x.reps > 0)
        counted == IF with_reps # <<>> THEN with_reps ELSE session_sets
    IN  IF is_assisted /\ Truthy(bw)
        THEN {AssistedEntry(current_date, counted, bw, u) : u \in PrimaryUnits(counted)}
        ELSE {RawEntry(current_date, counted, u) : u \in PrimaryUnits(counted)}

\* mutant: for the last date group max_reps is the greatest reps of the
\* session, whatever set it is in
LastSessionEntries_IndependentMax(current_date, session_sets, name, bw) ==
    LET is_assisted == IsAssisted(name)
    IN  IF is_assisted /\ Truthy(bw)
        THEN {AssistedEntry(current_date, session_sets, bw, u) :
                 u \in PrimaryUnits(session_sets)}
        ELSE {RawEntry_IndependentMax(current_date, session_sets, u) :
                 u \in PrimaryUnits(session_sets)}

\* the entries the code after the loop can append for the last date group
LastSessionEntries(current_date, session_sets, name, bw) ==
    LET is_assisted == IsAssisted(name)
    IN  IF is_assisted /\ Truthy(bw)
        THEN {AssistedEntry(current_date, session_sets, bw, u) :
                 u \in PrimaryUnits(session_sets)}
        ELSE {RawEntry(current_date, session_sets, u) :
                 u \in PrimaryUnits(session_sets)}

SetOf(row) == [weight |-> row.weight, reps |-> row.reps, unit |-> row.unit]

\* mutant: the sets collected when the rows run out are not emitted
RECURSIVE LoopRows_NoLastSession(_, _, _, _, _, _, _)
LoopRows_NoLastSession(df, i, current_date, session_sets, session_data, name, bw) ==
    IF i > Len(df)
    THEN {session_data}
    ELSE LET row_date == DateOf(df[i].date)
         IN  IF current_date # row_date
             THEN LET flushed ==
                          IF current_date # None /\ session_sets # <<>>
                          THEN {Append(session_data, e) :
                                   e \in LoopSessionEntries(current_date, session_sets,
                                                            name, bw)}
                          ELSE {session_data}
                  IN  UNION {LoopRows_NoLastSession(df, i + 1, row_date, <<SetOf(df[i])>>,
                                                    sd, name, bw) :
                                sd \in flushed}
             ELSE LoopRows_NoLastSession(df, i + 1, current_date,
                                         Append(session_sets, SetOf(df[i])),
                                         session_data, name, bw)

\* the loop over the sorted rows from row i on and the code after it: the
\* set of lists session_data can end as.  current_date is None or a date.
RECURSIVE LoopRows(_, _, _, _, _, _, _)
LoopRows(df, i, current_date, session_sets, session_data, name, bw) ==
    IF i > Len(df)
    THEN IF session_sets # <<>> /\ current_date # None
         THEN {Append(session_data, e) :
                  e \in LastSessionEntries(current_date, session_sets, name, bw)}
         ELSE {session_data}
    ELSE LET row_date == DateOf(df[i].date)
         IN  IF current_date # row_date
             THEN LET flushed ==
                          IF current_date # None /\ session_sets # <<>>
                          THEN {Append(session_data, e) :
                                   e \in LoopSessionEntries(current_date, session_sets,
                                                            name, bw)}
                          ELSE {session_data}
                  IN  UNION {LoopRows(df, i + 1, row_date, <<SetOf(df[i])>>, sd, name, bw) :
                                sd \in flushed}
             ELSE LoopRows(df, i + 1, current_date, Append(session_sets, SetOf(df[i])),
                           session_data, name, bw)

\* mutant: the frame is not copied, the parsed dates land in the caller's
\* column
CallerDtype_NoCopy(dtype) == "datetime64[ns]"

\* history_df = history_df.copy(): the dates are parsed in the copy, the
\* date column of the caller's frame keeps its dtype
CallerDtype(dtype) == dtype

\* mutant: the frame is sorted in place
CallerFrame_InPlace(df, sorted) == sorted

\* history_df = history_df.sort_values('date') binds the local name to a
\* new frame; the rows of the caller's frame stay as they are
CallerFrame(df, sorted) == df

\* mutant: the list lives on between calls (a default argument or a global)
FreshSessionData_Kept(previous) == previous

\* session_data = []
FreshSessionData(previous) == <<>>

\* the units of the rows of date d of a sorted frame, in their order
UnitsOn(df, d) ==
    LET rows == SelectSeq(df, LAMBDA row : DateOf(row.date) = d)
    IN  [i \in 1..Len(rows) |-> rows[i].unit]

\* the unit picked for each list of units met: max(set(...), key=...) of
\* one list gives one unit throughout a process
ModePicks(df, session_data) ==
    {<<UnitsOn(df, session_data[k].date), session_data[k].unit>> :
        k \in 1..Len(session_data)}

\* a set of <<argument, result>> pairs with one result per argument
Deterministic(pairs) == \A p, q \in pairs : p[1] = q[1] => p[2] = q[2]

\* session_df.sort_values('date')
SortSessions(sd) ==
    LET n == Len(sd)
        perms == {f \in [1..n -> 1..n] : \A i, j \in 1..n : i # j => f[i] # f[j]}
    IN  { [i \in 1..n |-> sd[f[i]]] :
            f \in {g \in perms :
                     \A i \in 1..n : i < n => TsLe(sd[g[i]].date, sd[g[i + 1]].date)} }

-----------------------------------------------------------------------------
(* src/database/db_manager.py: get_pr_records.  workout_logs holds the     *)
(* rows of the user asked for, in the order the store returns them; a row  *)
(* is [exercise_name, date |-> <<day, time>>, weight, unit, reps].         *)

Range(seq) == {seq[i] : i \in 1..Len(seq)}

\* list(set(row['exercise_name'] for row in result.data))
ExercisesOf(logs) == {logs[i].exercise_name : i \in 1..Len(logs)}

\* the rows selected with .eq("exercise_name", exercise_name)
LogsOf(logs, name) == SelectSeq(logs, LAMBDA row : row.exercise_name = name)

\* Series.max() and Series.min() of a non-empty column
RMax(S) == CHOOSE x \in S : \A y \in S : RLe(y, x)

RMin(S) == CHOOSE x \in S : \A y \in S : RLe(x, y)

IMax(S) == CHOOSE x \in S : \A y \in S : y <= x

\* mutant: the dates oldest first
SortedDatesDesc_Ascending(dates) ==
    CHOOSE seq \in [1..Cardinality(dates) -> dates] :
        /\ Range(seq) = dates
        /\ \A i \in 1..(Len(seq) - 1) : TsLe(seq[i], seq[i + 1])

\* sorted(rows['date'].unique().tolist(), reverse=True)
SortedDatesDesc(dates) ==
    CHOOSE seq \in [1..Cardinality(dates) -> dates] :
        /\ Range(seq) = dates
        /\ \A i \in 1..(Len(seq) - 1) : TsLe(seq[i + 1], seq[i])

\* mutant: the greatest weight also for an assisted exercise
BestWeight_AlwaysMax(logs_df, is_assisted) ==
    RMax({logs_df[i].weight : i \in 1..Len(logs_df)})

\* logs_df['weight'].min() if is_assisted else logs_df['weight'].max()
BestWeight(logs_df, is_assisted) ==
    IF is_assisted
    THEN RMin({logs_df[i].weight : i \in 1..Len(logs_df)})
    ELSE RMax({logs_df[i].weight : i \in 1..Len(logs_df)})

\* mutant: the volume of a row is the volume of its whole day
Volume_SessionTotal(logs_df, i) ==
    RSum([k \in 1..Len(logs_df) |->
             IF DateOf(logs_df[k].date) = DateOf(logs_df[i].date)
             THEN RMul(logs_df[k].weight, Num(logs_df[k].reps))
             ELSE Zero])

\* logs_df['volume'] = logs_df['weight'] * logs_df['reps'], row i
Volume(logs_df, i) == RMul(logs_df[i].weight, Num(logs_df[i].reps))

\* the record of one exercise with at least one row
PrRecord(logs_df, is_assisted) ==
    LET n == Len(logs_df)
        best_weight == BestWeight(logs_df, is_assisted)
        best_weight_rows == SelectSeq(logs_df, LAMBDA row : row.weight = best_weight)
        best_reps == IMax({logs_df[i].reps : i \in 1..n})
        best_reps_rows == SelectSeq(logs_df, LAMBDA row : row.reps = best_reps)
        best_volume == RMax({Volume(logs_df, i) : i \in 1..n})
        best_volume_idx == {i \in 1..n : Volume(logs_df, i) = best_volume}
    IN  [best_weight |-> best_weight,
         best_weight_unit |->
             IF best_weight_rows # <<>> THEN best_weight_rows[1].unit ELSE "kg",
         best_weight_dates |->
             SortedDatesDesc({DateOf(row.date) : row \in Range(best_weight_rows)}),
         best_reps |-> best_reps,
         best_reps_dates |->
             SortedDatesDesc({DateOf(row.date) : row \in Range(best_reps_rows)}),
         best_volume |-> best_volume,
         best_volume_dates |->
             SortedDatesDesc({DateOf(logs_df[i].date) : i \in best_volume_idx}),
         is_assisted |-> is_assisted]

\* a record of zeros and empty date lists
EmptyRecord(is_assisted) ==
    [best_weight |-> Zero, best_weight_unit |-> "kg", best_weight_dates |-> <<>>,
     best_reps |-> 0, best_reps_dates |-> <<>>,
     best_volume |-> Zero, best_volume_dates |-> <<>>,
     is_assisted |-> is_assisted]

\* mutant: a listed exercise without rows gets a record of zeros
get_pr_records_ZeroRecord(listed, logs) ==
    [name \in listed |->
        IF LogsOf(logs, name) = <<>>
        THEN EmptyRecord(is_assisted_exercise(name))
        ELSE PrRecord(LogsOf(logs, name), is_assisted_exercise(name))]

\* pr_dict: one record per listed exercise whose own query returns rows;
\* an exercise whose query returns none is skipped (continue)
get_pr_records(listed, logs) ==
    [name \in {e \in listed : LogsOf(logs, e) # <<>>} |->
        PrRecord(LogsOf(logs, name), is_assisted_exercise(name))]

-----------------------------------------------------------------------------
(* src/app.py: render_log_workout_page, the copy of a recent session into  *)
(* the entry form.  A session is [unit, sets], a set [set_order, weight,   *)
(* reps].  Every interaction reruns the script, which renders the form.    *)

\* list.index(x): the 0-based position of the first x, or -1 for ValueError
IndexOf(list, x) ==
    IF \E i \in 1..Len(list) : list[i] = x
    THEN (CHOOSE i \in 1..Len(list) : list[i] = x /\ \A j \in 1..(i - 1) : list[j] # x) - 1
    ELSE -1

\* x put into an ascending list, after the values not above it
InsertSorted(list, x) ==
    SelectSeq(list, LAMBDA y : RLe(y, x)) \o <<x>> \o SelectSeq(list, LAMBDA y : RLt(x, y))

\* mutant: the list is left in the order it has
SortedList_NoSort(list) == list

\* sorted(list): a list already ascending is returned as it is; otherwise
\* its last element is put into its place in the sorted rest
RECURSIVE SortedList(_)
SortedList(list) ==
    IF \A i \in 1..(Len(list) - 1) : RLe(list[i], list[i + 1])
    THEN list
    ELSE InsertSorted(SortedList(SubSeq(list, 1, Len(list) - 1)), list[Len(list)])

\* the elements of a set in the order a for loop meets them
AsList(S) == CHOOSE seq \in [1..Cardinality(S) -> S] : Range(seq) = S

\* unit_map and the radio's option list
UnitOptions == <<"kg", "lb", "notch/plate">>

UnitIndex(u) ==
    IF u = "kg" THEN 0
    ELSE IF u = "lb" THEN 1
    ELSE IF u = "notch/plate" \/ u = "notch" THEN 2
    ELSE 0

\* get_previous_workout: the first set of the most recent session
PreviousWorkout(session) ==
    [weight |-> session.sets[1].weight, unit |-> session.unit, reps |-> session.sets[1].reps]

EffectiveUnit(cd, ts, u) ==
    IF cd # None
    THEN IF ts > 0 THEN cd.unit ELSE u
    ELSE u

\* mutant: the weight of every copied set above 0 is appended, on the
\* ladder or not, once per set
ExtendOptions_AppendAll(weight_options, cd, effective_unit) ==
    IF cd # None
    THEN LET converted ==
                 [i \in 1..Len(cd.sets) |->
                     IF cd.unit # effective_unit
                     THEN convert_unit(cd.sets[i].weight, cd.unit, effective_unit)
                     ELSE cd.sets[i].weight]
         IN  SortedList(weight_options \o SelectSeq(converted, LAMBDA w : RLt(Zero, w)))
    ELSE weight_options

\* the ladder with the copied weights it lacks added, sorted
ExtendOptions(weight_options, cd, effective_unit) ==
    IF cd # None
    THEN LET converted ==
                 {IF cd.unit # effective_unit
                  THEN convert_unit(cd.sets[i].weight, cd.unit, effective_unit)
                  ELSE cd.sets[i].weight : i \in 1..Len(cd.sets)}
             copied_weights == {w \in converted : RLt(Zero, w)}
             missing == {w \in copied_weights : w \notin Range(weight_options)}
         IN  SortedList(weight_options \o AsList(missing))
    ELSE weight_options

\* default_weight of set i (0-based): from the copied set, else from the
\* previous workout for the first set, else 0
DefaultWeight(i, cd, effective_unit, previous_workout) ==
    IF cd # None /\ i < Len(cd.sets)
    THEN IF effective_unit = cd.unit
         THEN cd.sets[i + 1].weight
         ELSE convert_unit(cd.sets[i + 1].weight, cd.unit, effective_unit)
    ELSE IF previous_workout # None /\ i = 0
    THEN IF effective_unit # previous_workout.unit
         THEN convert_unit(previous_workout.weight, previous_workout.unit, effective_unit)
         ELSE previous_workout.weight
    ELSE Zero

\* the safety fallback: a default weight the list lacks is added to it
OptionsWith(weight_options, default_weight) ==
    IF RLt(Zero, default_weight) /\ default_weight \notin Range(weight_options)
    THEN SortedList(Append(weight_options, default_weight))
    ELSE weight_options

\* max(0, min(hi, x))
Clamp(x, hi) == IF x < 0 THEN 0 ELSE IF x > hi THEN hi ELSE x

\* default_weight_index with the adjustment (always 0) applied and clamped
WeightIndex(options, default_weight) ==
    Clamp(IF RLt(Zero, default_weight)
          THEN IF IndexOf(options, default_weight) >= 0
               THEN IndexOf(options, default_weight)
               ELSE 0
          ELSE 0,
          Len(options) - 1)

\* mutant: the reps of the template are the default whatever they are
DefaultReps_NoFallback(i, cd, previous_workout) ==
    IF cd # None /\ i < Len(cd.sets) THEN cd.sets[i + 1].reps
    ELSE IF previous_workout # None /\ i = 0 THEN previous_workout.reps
    ELSE 0

\* default_reps of set i (0-based)
DefaultReps(i, cd, previous_workout) ==
    LET raw_reps ==
            IF cd # None /\ i < Len(cd.sets) THEN cd.sets[i + 1].reps
            ELSE IF previous_workout # None /\ i = 0 THEN previous_workout.reps
            ELSE 0
    IN  IF raw_reps \in Range(get_reps_options) THEN raw_reps ELSE 0

RepsIndex(default_reps) ==
    Clamp(IF IndexOf(get_reps_options, default_reps) >= 0
          THEN IndexOf(get_reps_options, default_reps)
          ELSE 0,
          Len(get_reps_options) - 1)

\* the two selectboxes of a set, given the option list offered and the
\* defaults
Widget(options, default_weight, default_reps) ==
    [options |-> options,
     default_weight |-> default_weight,
     weight_index |-> WeightIndex(options, default_weight),
     default_reps |-> default_reps,
     reps_index |-> RepsIndex(default_reps)]

\* the selectboxes of set i (0-based)
RenderSet(i, weight_options, cd, effective_unit, previous_workout) ==
    Widget(OptionsWith(weight_options,
                       DefaultWeight(i, cd, effective_unit, previous_workout)),
           DefaultWeight(i, cd, effective_unit, previous_workout),
           DefaultReps(i, cd, previous_workout))

\* for i in range(num_sets): the list a set leaves is the list of the next
RECURSIVE RenderSets(_, _, _, _, _, _)
RenderFrom(w, i, n, cd, effective_unit, previous_workout) ==
    <<w>> \o RenderSets(i + 1, n, w.options, cd, effective_unit, previous_workout)

RenderSets(i, n, weight_options, cd, effective_unit, previous_workout) ==
    IF i >= n THEN <<>>
    ELSE RenderFrom(RenderSet(i, weight_options, cd, effective_unit, previous_workout),
                    i, n, cd, effective_unit, previous_workout)

\* the form a run of the script shows
Render(cd, ts, u, n, previous_workout) ==
    LET effective_unit == EffectiveUnit(cd, ts, u)
        weight_options == ExtendOptions(get_weight_options(effective_unit), cd, effective_unit)
    IN  [error |-> FALSE,
         effective_unit |-> effective_unit,
         template |-> cd,
         widgets |-> RenderSets(0, n, weight_options, cd, effective_unit, previous_workout)]

\* max_value of the number input of the sets
NumSetsMaxValue == 10

\* default_num_sets: the number the last copy stored (0 for no copy yet),
\* else the number of sets of the copied data, else 3
DefaultNumSets(cd, stored) ==
    IF stored # 0 THEN stored
    ELSE IF cd # None THEN Len(cd.sets)
    ELSE 3

\* the page after st.number_input has raised: no unit radio and no form
StreamlitError ==
    [error |-> TRUE, effective_unit |-> None, template |-> None, widgets |-> <<>>]

\* the number input after a rerun in which its default went from old_default
\* to new_default and it showed n before.  The widget keeps its key: a
\* Streamlit that identifies a widget by its parameters shows the new
\* default when the default has changed, one that identifies it by its key
\* keeps n; with an unchanged default both keep n.
NumberInput(n, old_default, new_default) ==
    IF new_default # old_default THEN {new_default, n} ELSE {n}

\* a run of the script from the number input on: st.number_input raises for
\* a default value above max_value, otherwise the form is rendered
RunScript(cd, ts, u, n, stored, previous_workout) ==
    IF DefaultNumSets(cd, stored) > NumSetsMaxValue
    THEN StreamlitError
    ELSE Render(cd, ts, u, n, previous_workout)

\* sets_data: the sets of the form with a weight and reps above 0
SetsData(f) ==
    LET chosen == [i \in 1..Len(f.widgets) |->
                      [set_order |-> i,
                       weight |-> f.widgets[i].options[f.widgets[i].weight_index + 1],
                       unit |-> f.effective_unit,
                       reps |-> get_reps_options[f.widgets[i].reps_index + 1]]]
    IN  SelectSeq(chosen, LAMBDA x : RLt(Zero, x.weight) /\ x.reps > 0)

-----------------------------------------------------------------------------
(* Inputs of the conversion: values v >= 0, the four unit strings the code *)
(* names and two it does not.                                              *)

CvValues == {Zero, Num(1), Rat(5, 2), Num(23), Rat(45, 2), Num(100)}

UnknownUnits == {"stone", ""}

CvUnits == KnownUnits \cup UnknownUnits

CvInit ==
    /\ cv_value \in CvValues
    /\ cv_from \in CvUnits
    /\ cv_to \in CvUnits
    /\ cv_result = None
    /\ cv_back = None
    /\ cv_pc = "start"

\* a caller converts value from from_unit to to_unit
ConvertUnit ==
    /\ cv_pc = "start"
    /\ cv_result' = convert_unit(cv_value, cv_from, cv_to)
    /\ cv_pc' = "converted"
    /\ UNCHANGED <<cv_value, cv_from, cv_to, cv_back>>

\* the caller converts the result back from to_unit to from_unit
ConvertBack ==
    /\ cv_pc = "converted"
    /\ cv_back' = convert_unit(cv_result, cv_to, cv_from)
    /\ cv_pc' = "back"
    /\ UNCHANGED <<cv_value, cv_from, cv_to, cv_result>>

-----------------------------------------------------------------------------
(* Inputs of calculate_1rm: a weight of either sign or zero, and two rep   *)
(* counts from below zero to above 30.                                     *)

RmWeights == {Num(-10), Zero, Rat(5, 2), Num(23), Num(100)}

RmReps == {-1, 0, 1, 2, 3, 8, 30, 31}

RmInit ==
    /\ rm_weight \in RmWeights
    /\ rm_reps \in RmReps
    /\ rm_reps2 \in RmReps
    /\ rm_result = None
    /\ rm_result2 = None
    /\ rm_pc = "start"

\* a caller estimates the 1RM of weight at reps
Calculate1rm ==
    /\ rm_pc = "start"
    /\ rm_result' = calculate_1rm(rm_weight, rm_reps)
    /\ rm_pc' = "first"
    /\ UNCHANGED <<rm_weight, rm_reps, rm_reps2, rm_result2>>

\* and that of the same weight at the second rep count
Calculate1rmAgain ==
    /\ rm_pc = "first"
    /\ rm_result2' = calculate_1rm(rm_weight, rm_reps2)
    /\ rm_pc' = "second"
    /\ UNCHANGED <<rm_weight, rm_reps, rm_reps2, rm_result>>

-----------------------------------------------------------------------------
(* Inputs of calculate_session_metrics: a history of at most MaxRows rows  *)
(* in any order, logged on two days (one of them at two times of day), a   *)
(* plain and an assisted exercise, with and without a bodyweight.          *)

MaxRows == 2

SmDates == {<<1, 0>>, <<1, 1>>, <<2, 0>>}

SmWeights == {Num(10), Num(20)}

SmUnits == {"kg", "lb"}

SmReps == {3, 8}

SmRows == [date : SmDates, weight : SmWeights, unit : SmUnits, reps : SmReps]

BenchPress == <<"B", "e", "n", "c", "h", " ", "P", "r", "e", "s", "s">>

AssistedPullUp ==
    <<"A", "s", "s", "i", "s", "t", "e", "d", " ", "P", "u", "l", "l", "-", "u", "p">>

SmNames == {BenchPress, AssistedPullUp}

\* st.session_state.get('bodyweight', 135.0), or the argument left out
SmBodyweights == {None, Num(135)}

SmInit ==
    /\ history_df \in UNION {[1..n -> SmRows] : n \in 0..MaxRows}
    /\ exercise_name \in SmNames
    /\ bodyweight \in SmBodyweights
    /\ sorted_df = <<>>
    /\ session_df = <<>>
    /\ sm_pc = "start"
    /\ given_df = history_df
    /\ date_dtype = "object"
    /\ sm_call = 1
    /\ first_session_df = <<>>
    /\ py_sort = {}
    /\ py_mode = {}

\* if history_df.empty: return pd.DataFrame()
ReturnEmpty ==
    /\ sm_pc = "start"
    /\ history_df = <<>>
    /\ session_df' = <<>>
    /\ sm_pc' = "done"
    /\ UNCHANGED <<history_df, exercise_name, bodyweight, sorted_df,
                   given_df, date_dtype, sm_call, first_session_df, py_sort, py_mode>>

\* the copy of the frame, with the dates parsed, sorted by date.  The sort
\* of a process returns one order for one frame.
SortHistory ==
    /\ sm_pc = "start"
    /\ history_df # <<>>
    /\ date_dtype' = CallerDtype(date_dtype)
    /\ sorted_df' \in SortValues(history_df)
    /\ py_sort' = py_sort \cup {<<history_df, sorted_df'>>}
    /\ Deterministic(py_sort')
    /\ history_df' = CallerFrame(history_df, sorted_df')
    /\ sm_pc' = "sorted"
    /\ UNCHANGED <<exercise_name, bodyweight, session_df,
                   given_df, sm_call, first_session_df, py_mode>>

\* the loop over the rows, the last session, and the sort of the result
Aggregate ==
    /\ sm_pc = "sorted"
    /\ \E session_data \in LoopRows(sorted_df, 1, None, <<>>,
                                    FreshSessionData(first_session_df),
                                    exercise_name, bodyweight) :
           /\ py_mode' = py_mode \cup ModePicks(sorted_df, session_data)
           /\ Deterministic(py_mode')
           /\ session_df' \in SortSessions(session_data)
    /\ sm_pc' = "done"
    /\ UNCHANGED <<history_df, exercise_name, bodyweight, sorted_df,
                   given_df, date_dtype, sm_call, first_session_df, py_sort>>

\* the caller keeps the result and calls again with the same arguments
CallAgain ==
    /\ sm_pc = "done"
    /\ sm_call = 1
    /\ first_session_df' = session_df
    /\ sm_call' = 2
    /\ sorted_df' = <<>>
    /\ session_df' = <<>>
    /\ sm_pc' = "start"
    /\ UNCHANGED <<history_df, exercise_name, bodyweight, given_df, date_dtype,
                   py_sort, py_mode>>

\* the histories the repeated call is run on: one weight, so that rows
\* differ in date, unit and reps only
RpRows == [date : SmDates, weight : {Num(10)}, unit : SmUnits, reps : SmReps]

\* a first call on a history of at most n rows drawn from rows
SmInitFrom(rows, n, names, bodyweights) ==
    /\ history_df \in UNION {[1..k -> rows] : k \in 0..n}
    /\ exercise_name \in names
    /\ bodyweight \in bodyweights
    /\ sorted_df = <<>>
    /\ session_df = <<>>
    /\ sm_pc = "start"
    /\ given_df = history_df
    /\ date_dtype = "object"
    /\ sm_call = 1
    /\ first_session_df = <<>>
    /\ py_sort = {}
    /\ py_mode = {}

RpInit == SmInitFrom(RpRows, MaxRows, SmNames, SmBodyweights)

\* histories long enough for a day to come back after another day: at
\* most MaxUnsorted rows of a plain exercise in kg
MaxUnsorted == 3

UnsortedRows == [date : SmDates, weight : SmWeights, unit : {"kg"}, reps : {8}]

UnsortedInit == SmInitFrom(UnsortedRows, MaxUnsorted, {BenchPress}, {None})

\* histories with the values the import lets through: sets of 0 reps, a
\* weight of 0, and assistance equal to and above the bodyweight of 135 lb
MaxEdgeRows == 2

EdgeRows ==
    [date : {<<1, 0>>, <<2, 0>>}, weight : {Zero, Num(10), Num(135), Num(200)},
     unit : {"lb"}, reps : {0, 8}]

EdgeInit == SmInitFrom(EdgeRows, MaxEdgeRows, SmNames, SmBodyweights)

\* histories long enough to hold the same two sets on two dates
MaxRepeatedRows == 4

RepeatedRows ==
    {[date |-> d, weight |-> Num(10), unit |-> "kg", reps |-> 8] : d \in {<<1, 0>>, <<2, 0>>}}
    \cup {[date |-> d, weight |-> Num(20), unit |-> "lb", reps |-> 5] : d \in {<<1, 0>>, <<2, 0>>}}

RepeatedInit == SmInitFrom(RepeatedRows, MaxRepeatedRows, SmNames, SmBodyweights)

-----------------------------------------------------------------------------
(* Inputs of get_pr_records: a table of at most MaxLogs rows of a plain    *)
(* and an assisted exercise.                                               *)

MaxLogs == 2

PrDates == {<<1, 0>>, <<2, 0>>, <<2, 1>>}

PrWeights == {Num(90), Num(100)}

PrUnits == {"kg", "lb"}

PrReps == {5, 8}

PrNames == {BenchPress, AssistedPullUp}

PrRows ==
    [exercise_name : PrNames, date : PrDates,
     weight : PrWeights, unit : PrUnits, reps : PrReps]

PrInit ==
    /\ workout_logs \in UNION {[1..n -> PrRows] : n \in 0..MaxLogs}
    /\ exercises = {}
    /\ pr_dict = <<>>
    /\ pr_pc = "start"

\* the first query: the exercise names of the user's rows
ListExercises ==
    /\ pr_pc = "start"
    /\ exercises' = ExercisesOf(workout_logs)
    /\ pr_pc' = "listed"
    /\ UNCHANGED <<workout_logs, pr_dict>>

\* delete_all_exercise_workouts(user_id, name), run from elsewhere between
\* the first query and the queries of the loop
DeleteAllExerciseWorkouts ==
    /\ pr_pc = "listed"
    /\ \E name \in ExercisesOf(workout_logs) :
           workout_logs' = SelectSeq(workout_logs, LAMBDA row : row.exercise_name # name)
    /\ UNCHANGED <<exercises, pr_dict, pr_pc>>

\* the loop over the listed exercises, each with its own query, and the
\* return
GetPrRecords ==
    /\ pr_pc = "listed"
    /\ pr_dict' = get_pr_records(exercises, workout_logs)
    /\ pr_pc' = "done"
    /\ UNCHANGED <<workout_logs, exercises>>

-----------------------------------------------------------------------------
(* The entry form: the store holds one earlier session of the exercise, of *)
(* at most MaxSets sets; the user copies it at most MaxCopies times.       *)

MaxSets == 2

MaxCopies == 2

\* the spellings of a unit the store holds
FmUnits == {"kg", "lb", "notch", "notch/plate"}

FmWeights == {Zero, Num(10), Num(23)}

FmReps == {8, 40}

FmSessions ==
    UNION {[unit : FmUnits,
            sets : {s \in [1..n -> [set_order : 1..n, weight : FmWeights, reps : FmReps]] :
                       \A i \in 1..n : s[i].set_order = i}] : n \in 1..MaxSets}

\* the set counts the user picks in the number input (1 to 10)
NumSetsInputs == {1, 2, 3}

FmInit ==
    /\ recent_session \in FmSessions
    /\ copied_data = None
    /\ copied_unit = None
    /\ copied_num_sets = 0
    /\ copied_at = 0
    /\ unit_radio = "kg"
    /\ num_sets = 3
    /\ form = RunScript(None, 0, "kg", 3, 0, PreviousWorkout(recent_session))
    /\ saved_sets = <<>>

\* the copy button of the session, and the rerun it triggers.  The unit
\* radio gets a new key and shows the copied unit; the number input keeps
\* its key.  When the number input raises neither widget is drawn.
CopySession ==
    /\ copied_at < MaxCopies
    /\ copied_data' = recent_session
    /\ copied_unit' = recent_session.unit
    /\ copied_num_sets' = Len(recent_session.sets)
    /\ copied_at' = copied_at + 1
    /\ IF copied_num_sets' > NumSetsMaxValue
       THEN UNCHANGED <<unit_radio, num_sets>>
       ELSE /\ unit_radio' = UnitOptions[UnitIndex(copied_unit') + 1]
            /\ num_sets' \in NumberInput(num_sets,
                                          DefaultNumSets(copied_data, copied_num_sets),
                                          copied_num_sets')
    /\ form' = RunScript(copied_data', copied_at', unit_radio', num_sets',
                         copied_num_sets', PreviousWorkout(recent_session))
    /\ UNCHANGED <<recent_session, saved_sets>>

\* the user picks another unit in the radio
SelectUnit ==
    /\ ~form.error
    /\ \E u \in Range(UnitOptions) :
           /\ u # unit_radio
           /\ unit_radio' = u
    /\ form' = RunScript(copied_data, copied_at, unit_radio', num_sets,
                         copied_num_sets, PreviousWorkout(recent_session))
    /\ UNCHANGED <<recent_session, copied_data, copied_unit, copied_num_sets, copied_at,
                   num_sets, saved_sets>>

\* the user picks another number of sets
SetNumSets ==
    /\ ~form.error
    /\ \E n \in NumSetsInputs :
           /\ n # num_sets
           /\ num_sets' = n
    /\ form' = RunScript(copied_data, copied_at, unit_radio, num_sets',
                         copied_num_sets, PreviousWorkout(recent_session))
    /\ UNCHANGED <<recent_session, copied_data, copied_unit, copied_num_sets, copied_at,
                   unit_radio, saved_sets>>

\* the submit button with the form as shown: the sets are validated and
\* saved, and the copied data cleared.  No rerun follows, the form stays as
\* it was rendered.  The workout is saved under a date before that of the
\* recent session, which stays the most recent one.
SaveWorkout ==
    LET sets_data == SetsData(form)
    IN  /\ ~form.error
        /\ sets_data # <<>>
        /\ \A i \in 1..Len(sets_data) :
               validate_input(sets_data[i].weight, sets_data[i].reps, sets_data[i].unit)
        /\ saved_sets' = sets_data
        /\ copied_data' = None
        /\ UNCHANGED <<recent_session, copied_unit, copied_num_sets, copied_at,
                       unit_radio, num_sets, form>>

-----------------------------------------------------------------------------
(* The paths that write workout_logs: the submit of the entry form and the *)
(* edit of a stored set (src/app.py), and import_workout_from_csv          *)
(* (src/database/db_manager.py).  Of a row the columns weight, unit and    *)
(* reps are kept.  A Weight or Reps cell of the file is <<value>>, or <<>>  *)
(* when it is blank; a Unit cell is a sequence of characters.              *)

MaxStore == 2

\* str.strip(): the blanks at both ends removed
Strip(s) ==
    LET kept == {i \in 1..Len(s) : s[i] # " "}
    IN  IF kept = {} THEN <<>>
        ELSE SubSeq(s, CHOOSE i \in kept : \A j \in kept : i <= j, IMax(kept))

\* the string of a sequence of characters
RECURSIVE Join(_)
Join(chars) == IF chars = <<>> THEN "" ELSE chars[1] \o Join(Tail(chars))

\* mutant: the unit cell is stored stripped and in lower case, as it is
NormalizeUnit_AsWritten(cell) == Join(LowerStr(Strip(cell)))

\* the unit of a row of the CSV file
NormalizeUnit(cell) ==
    LET unit == LowerStr(Strip(cell))
    IN  IF Join(unit) \in {"kg", "lb", "notch", "notch/plate"} THEN Join(unit)
        ELSE IF \/ Contains(<<"n", "o", "t", "c", "h">>, unit)
                \/ Contains(<<"p", "l", "a", "t", "e">>, unit)
        THEN "notch/plate"
        ELSE IF \/ Contains(<<"l", "b">>, unit)
                \/ Contains(<<"p", "o", "u", "n", "d">>, unit)
        THEN "lb"
        ELSE "kg"

\* one row of the file: the record to insert, or None for a row counted as
\* an error
ImportRow(row) ==
    LET weight == IF row.Weight # <<>> THEN row.Weight[1] ELSE Zero
        unit == NormalizeUnit(row.Unit)
        reps == IF row.Reps # <<>> THEN row.Reps[1] ELSE 0
    IN  IF RLt(weight, Zero) \/ reps < 0 THEN None
        ELSE [weight |-> weight, unit |-> unit, reps |-> reps]

\* for idx, row in df.iterrows(): the records inserted, in the order of the
\* file
RECURSIVE ImportRows(_)
ImportRows(df) ==
    IF df = <<>> THEN <<>>
    ELSE (IF ImportRow(df[1]) = None THEN <<>> ELSE <<ImportRow(df[1])>>)
         \o ImportRows(Tail(df))

CsvWeights == {<<>>, <<Num(-5)>>, <<Num(50)>>}

CsvReps == {<<>>, <<-1>>, <<8>>}

\* "KG", " lb ", "Pounds", "Notch", "plates", "notch/plate", "stone"
CsvUnits ==
    { <<"K", "G">>,
      <<" ", "l", "b", " ">>,
      <<"P", "o", "u", "n", "d", "s">>,
      <<"N", "o", "t", "c", "h">>,
      <<"p", "l", "a", "t", "e", "s">>,
      <<"n", "o", "t", "c", "h", "/", "p", "l", "a", "t", "e">>,
      <<"s", "t", "o", "n", "e">> }

CsvRows == [Weight : CsvWeights, Unit : CsvUnits, Reps : CsvReps]

\* the values the user picks in the selectboxes of a set and in the radio
PickedWeights == {Zero, Num(50)}

PickedReps == {0, 8}

PickedSets == [weight : PickedWeights, reps : PickedReps]

StInit ==
    /\ workout_logs = <<>>
    /\ exercises = {}
    /\ pr_dict = <<>>
    /\ pr_pc = "idle"

\* import_workout_from_csv(user_id, df) on a file that has the required
\* columns
ImportWorkoutFromCsv ==
    /\ \E n \in 1..(MaxStore - Len(workout_logs)) :
           \E df \in [1..n -> CsvRows] :
               workout_logs' = workout_logs \o ImportRows(df)
    /\ UNCHANGED <<exercises, pr_dict, pr_pc>>

\* the submit of the entry form: the sets with a weight and reps above 0
\* are collected with the effective unit, validated and saved
SubmitWorkoutForm ==
    /\ \E n \in 1..(MaxStore - Len(workout_logs)) :
           \E picked \in [1..n -> PickedSets], effective_unit \in Range(UnitOptions) :
               LET chosen == [i \in 1..n |->
                                 [weight |-> picked[i].weight,
                                  unit |-> effective_unit,
                                  reps |-> picked[i].reps]]
                   sets_data == SelectSeq(chosen,
                                          LAMBDA x : RLt(Zero, x.weight) /\ x.reps > 0)
               IN  /\ sets_data # <<>>
                   /\ \A i \in 1..Len(sets_data) :
                          validate_input(sets_data[i].weight, sets_data[i].reps,
                                         sets_data[i].unit)
                   /\ workout_logs' = workout_logs \o sets_data
    /\ UNCHANGED <<exercises, pr_dict, pr_pc>>

\* the save button of the edit form of a stored set
UpdateWorkoutSet ==
    /\ \E k \in 1..Len(workout_logs) :
           \E new \in PickedSets, new_unit \in Range(UnitOptions) :
               /\ RLt(Zero, new.weight) /\ new.reps > 0
               /\ workout_logs' =
                      [workout_logs EXCEPT ![k] = [weight |-> new.weight,
                                                   unit |-> new_unit,
                                                   reps |-> new.reps]]
    /\ UNCHANGED <<exercises, pr_dict, pr_pc>>

-----------------------------------------------------------------------------
(* Specifications.  Each one runs one component; the variables of the      *)
(* others stay as they are.                                                *)

CvIdle ==
    /\ cv_value = Zero /\ cv_from = "kg" /\ cv_to = "kg"
    /\ cv_result = None /\ cv_back = None /\ cv_pc = "idle"

SmIdle ==
    /\ history_df = <<>> /\ exercise_name = <<>> /\ bodyweight = None
    /\ sorted_df = <<>> /\ session_df = <<>> /\ sm_pc = "idle"
    /\ given_df = <<>> /\ date_dtype = "object" /\ sm_call = 0
    /\ first_session_df = <<>> /\ py_sort = {} /\ py_mode = {}

PrIdle ==
    /\ workout_logs = <<>> /\ exercises = {} /\ pr_dict = <<>> /\ pr_pc = "idle"

FmIdle ==
    /\ recent_session = None /\ copied_data = None /\ copied_unit = None
    /\ copied_num_sets = 0 /\ copied_at = 0 /\ unit_radio = "kg" /\ num_sets = 0
    /\ form = None /\ saved_sets = <<>>

RmIdle ==
    /\ rm_weight = Zero /\ rm_reps = 0 /\ rm_reps2 = 0
    /\ rm_result = None /\ rm_result2 = None /\ rm_pc = "idle"

AuIdle ==
    /\ cookie_set_state = "start" /\ pending_refresh_token = 0 /\ user = 0
    /\ cookie_calls = <<>> /\ au_pc = "page" /\ logins = 0

vars == <<cvVars, smVars, prVars, fmVars, rmVars, auVars>>

ConvertInit == CvInit /\ SmIdle /\ PrIdle /\ FmIdle /\ RmIdle /\ AuIdle

ConvertNext ==
    \/ ConvertUnit /\ UNCHANGED <<smVars, prVars, fmVars, rmVars, auVars>>
    \/ ConvertBack /\ UNCHANGED <<smVars, prVars, fmVars, rmVars, auVars>>

ConvertSpec == ConvertInit /\ [][ConvertNext]_vars

MetricsInit == SmInit /\ CvIdle /\ PrIdle /\ FmIdle /\ RmIdle /\ AuIdle

MetricsNext ==
    \/ ReturnEmpty /\ UNCHANGED <<cvVars, prVars, fmVars, rmVars, auVars>>
    \/ SortHistory /\ UNCHANGED <<cvVars, prVars, fmVars, rmVars, auVars>>
    \/ Aggregate /\ UNCHANGED <<cvVars, prVars, fmVars, rmVars, auVars>>

MetricsSpec == MetricsInit /\ [][MetricsNext]_vars

RecordsInit == PrInit /\ CvIdle /\ SmIdle /\ FmIdle /\ RmIdle /\ AuIdle

RecordsNext ==
    \/ ListExercises /\ UNCHANGED <<cvVars, smVars, fmVars, rmVars, auVars>>
    \/ DeleteAllExerciseWorkouts /\ UNCHANGED <<cvVars, smVars, fmVars, rmVars, auVars>>
    \/ GetPrRecords /\ UNCHANGED <<cvVars, smVars, fmVars, rmVars, auVars>>

RecordsSpec == RecordsInit /\ [][RecordsNext]_vars

FormInit == FmInit /\ CvIdle /\ SmIdle /\ PrIdle /\ RmIdle /\ AuIdle

FormNext ==
    \/ CopySession /\ UNCHANGED <<cvVars, smVars, prVars, rmVars, auVars>>
    \/ SelectUnit /\ UNCHANGED <<cvVars, smVars, prVars, rmVars, auVars>>
    \/ SetNumSets /\ UNCHANGED <<cvVars, smVars, prVars, rmVars, auVars>>
    \/ SaveWorkout /\ UNCHANGED <<cvVars, smVars, prVars, rmVars, auVars>>

FormSpec == FormInit /\ [][FormNext]_vars

RepeatInit == RpInit /\ CvIdle /\ PrIdle /\ FmIdle /\ RmIdle /\ AuIdle

RepeatNext ==
    \/ ReturnEmpty /\ UNCHANGED <<cvVars, prVars, fmVars, rmVars, auVars>>
    \/ SortHistory /\ UNCHANGED <<cvVars, prVars, fmVars, rmVars, auVars>>
    \/ Aggregate /\ UNCHANGED <<cvVars, prVars, fmVars, rmVars, auVars>>
    \/ CallAgain /\ UNCHANGED <<cvVars, prVars, fmVars, rmVars, auVars>>

RepeatSpec == RepeatInit /\ [][RepeatNext]_vars

RegroupInit == UnsortedInit /\ CvIdle /\ PrIdle /\ FmIdle /\ RmIdle /\ AuIdle

RegroupSpec == RegroupInit /\ [][MetricsNext]_vars

EdgeCaseInit == EdgeInit /\ CvIdle /\ PrIdle /\ FmIdle /\ RmIdle /\ AuIdle

EdgeSpec == EdgeCaseInit /\ [][MetricsNext]_vars

PositionInit == RepeatedInit /\ CvIdle /\ PrIdle /\ FmIdle /\ RmIdle /\ AuIdle

PositionSpec == PositionInit /\ [][MetricsNext]_vars

OneRmInit == RmInit /\ CvIdle /\ SmIdle /\ PrIdle /\ FmIdle /\ AuIdle

OneRmNext ==
    \/ Calculate1rm /\ UNCHANGED <<cvVars, smVars, prVars, fmVars, auVars>>
    \/ Calculate1rmAgain /\ UNCHANGED <<cvVars, smVars, prVars, fmVars, auVars>>

OneRmSpec == OneRmInit /\ [][OneRmNext]_vars

InputInit == StInit /\ CvIdle /\ SmIdle /\ FmIdle /\ RmIdle /\ AuIdle

InputNext ==
    \/ ImportWorkoutFromCsv /\ UNCHANGED <<cvVars, smVars, fmVars, rmVars, auVars>>
    \/ SubmitWorkoutForm /\ UNCHANGED <<cvVars, smVars, fmVars, rmVars, auVars>>
    \/ UpdateWorkoutSet /\ UNCHANGED <<cvVars, smVars, fmVars, rmVars, auVars>>

InputSpec == InputInit /\ [][InputNext]_vars

ImportNext == ImportWorkoutFromCsv /\ UNCHANGED <<cvVars, smVars, fmVars, rmVars, auVars>>

ImportSpec == InputInit /\ [][ImportNext]_vars

-----------------------------------------------------------------------------
(* The cookie persistence of src/src/auth.py.  The sessions the auth       *)
(* server hands out are numbered 1, 2, ...; session k has the access token *)
(* k and the refresh token k, or no refresh token, written 0 (None or "",  *)
(* both falsy).  The cookie manager is taken to be installed; each call on *)
(* it either goes out or raises, and what get_all() reports in the run     *)
(* that wrote a cookie depends on the browser component, so both are       *)
(* choices.  st.rerun() leaves the function that calls it and starts       *)
(* main() again.                                                           *)

MaxLogins == 3

ACCESS_TOKEN_COOKIE == "gym_access_token"
REFRESH_TOKEN_COOKIE == "gym_refresh_token"

SetCookie(cookie, val) == [op |-> "set", cookie |-> cookie, val |-> val]
DeleteCookie(cookie) == [op |-> "delete", cookie |-> cookie, val |-> 0]

AuInit ==
    /\ cookie_set_state = "start" /\ pending_refresh_token = 0 /\ user = 0
    /\ cookie_calls = <<>> /\ au_pc = "main" /\ logins = 0

\* _persist_session_to_cookies(access_token, refresh_token): one step of
\* the state machine; in every branch the caller ends with a rerun
PersistSessionToCookies(access_token, refresh_token) ==
    CASE cookie_set_state = "start" ->
            \/ /\ cookie_calls' = Append(cookie_calls,
                       SetCookie(ACCESS_TOKEN_COOKIE, access_token))
               /\ cookie_set_state' = "access_token_set"
               /\ pending_refresh_token' = refresh_token
               /\ au_pc' = "main"
            \/ \* cookie_manager.set raised
               /\ cookie_set_state' = "start"
               /\ au_pc' = "main"
               /\ UNCHANGED <<cookie_calls, pending_refresh_token>>
      [] cookie_set_state = "access_token_set" ->
            \/ /\ cookie_calls' = Append(cookie_calls,
                       SetCookie(REFRESH_TOKEN_COOKIE, pending_refresh_token))
               /\ cookie_set_state' = "both_set"
               /\ pending_refresh_token' = 0
               /\ au_pc' = "verify_persist"
            \/ /\ cookie_set_state' = "start"
               /\ au_pc' = "main"
               /\ UNCHANGED <<cookie_calls, pending_refresh_token>>
      [] cookie_set_state = "both_set" ->
            /\ au_pc' = "main"
            /\ UNCHANGED <<cookie_set_state, cookie_calls, pending_refresh_token>>

\* set_session_state(user, session) for the next session of the auth server
SetSessionState ==
    /\ logins < MaxLogins
    /\ logins' = logins + 1
    /\ user' = logins + 1
    /\ \E refresh_token \in {logins + 1, 0} :
           PersistSessionToCookies(logins + 1, refresh_token)

\* main(), step 2: continue_cookie_setting_if_needed()
ContinueCookieSettingIfNeeded ==
    /\ au_pc = "main"
    /\ IF cookie_set_state = "access_token_set" /\ pending_refresh_token # 0
       THEN \/ /\ cookie_calls' = Append(cookie_calls,
                       SetCookie(REFRESH_TOKEN_COOKIE, pending_refresh_token))
               /\ cookie_set_state' = "both_set"
               /\ pending_refresh_token' = 0
               /\ au_pc' = "verify"
            \/ \* cookie_manager.set raised
               /\ cookie_set_state' = "start"
               /\ au_pc' = "callback"
               /\ UNCHANGED <<cookie_calls, pending_refresh_token>>
       ELSE /\ au_pc' = "callback"
            /\ UNCHANGED <<cookie_set_state, cookie_calls, pending_refresh_token>>
    /\ UNCHANGED <<user, logins>>

\* the verification after the refresh-token cookie went out: back to
\* "start" when get_all() shows both cookies; continue_cookie_setting_if_needed
\* then returns False and main() goes on, otherwise main() reruns
VerifyCookies ==
    /\ au_pc \in {"verify", "verify_persist"}
    /\ \E seen \in BOOLEAN :
          /\ cookie_set_state' = IF seen THEN "start" ELSE cookie_set_state
          /\ au_pc' = IF au_pc = "verify" /\ seen THEN "callback" ELSE "main"
    /\ UNCHANGED <<pending_refresh_token, user, cookie_calls, logins>>

\* main(), step 4: handle_auth_callback(), with or without a code in the
\* URL that the auth server exchanges for a session; without one the page
\* is rendered
HandleAuthCallback ==
    /\ au_pc = "callback"
    /\ \/ SetSessionState
       \/ /\ au_pc' = "page"
          /\ UNCHANGED <<cookie_set_state, pending_refresh_token, user,
                         cookie_calls, logins>>

\* the login page, shown to a visitor who is not signed in:
\* login_with_email or signup_with_email
LoginWithEmail ==
    /\ au_pc = "page"
    /\ user = 0
    /\ SetSessionState

\* the logout button: logout() and a rerun; _clear_cookies() stops at the
\* first delete that raises
Logout ==
    /\ au_pc = "page"
    /\ user # 0
    /\ user' = 0
    /\ \E k \in 0..2 :
           cookie_calls' = cookie_calls \o
               SubSeq(<<DeleteCookie(ACCESS_TOKEN_COOKIE),
                        DeleteCookie(REFRESH_TOKEN_COOKIE)>>, 1, k)
    /\ cookie_set_state' = "start"
    /\ au_pc' = "main"
    /\ UNCHANGED <<pending_refresh_token, logins>>

CookieInit == AuInit /\ CvIdle /\ SmIdle /\ PrIdle /\ FmIdle /\ RmIdle

\* the steps the script takes by itself
RunMain ==
    /\ \/ ContinueCookieSettingIfNeeded
       \/ VerifyCookies
       \/ HandleAuthCallback
    /\ UNCHANGED <<cvVars, smVars, prVars, fmVars, rmVars>>

CookieNext ==
    \/ ContinueCookieSettingIfNeeded
           /\ UNCHANGED <<cvVars, smVars, prVars, fmVars, rmVars>>
    \/ VerifyCookies /\ UNCHANGED <<cvVars, smVars, prVars, fmVars, rmVars>>
    \/ HandleAuthCallback /\ UNCHANGED <<cvVars, smVars, prVars, fmVars, rmVars>>
    \/ LoginWithEmail /\ UNCHANGED <<cvVars, smVars, prVars, fmVars, rmVars>>
    \/ Logout /\ UNCHANGED <<cvVars, smVars, prVars, fmVars, rmVars>>

\* a script run that has started goes on to its end
CookieSpec == CookieInit /\ [][CookieNext]_vars /\ WF_vars(RunMain)

-----------------------------------------------------------------------------
(* Claims about calculate_session_metrics, under MetricsSpec.              *)

SmDone == sm_pc = "done"

\* the indices of the input rows logged on the calendar day of date d
RowsOn(d) == {i \in 1..Len(history_df) : history_df[i].date[1] = d[1]}

Sessions == {session_df[k] : k \in 1..Len(session_df)}

\* an assisted exercise aggregated with a bodyweight
AssistedRun == is_assisted_exercise(exercise_name) /\ bodyweight # None /\ bodyweight # Zero

\* a weight w given in unit u, in kg
InKg(w, u) ==
    CASE u = "kg" -> w
      [] u = "lb" -> RMul(w, Rat(453592, 1000000))
      [] u = "notch" -> RMul(w, Rat(5, 2))

\* a weight w given in lb, in unit u
LbIn(w, u) ==
    CASE u = "lb" -> w
      [] u = "kg" -> RMul(w, Rat(453592, 1000000))
      [] u = "notch" -> RDiv(RMul(w, Rat(453592, 1000000)), Rat(5, 2))

\* the weight the aggregation compares for row i in the session e
EffectiveWeight(i, e) ==
    IF AssistedRun
    THEN RSub(LbIn(bodyweight, e.unit), history_df[i].weight)
    ELSE history_df[i].weight

Epley(w, r) == IF r <= 1 THEN w ELSE RAdd(w, RDiv(RMul(w, Num(r)), Num(30)))

\* C1: every emitted session has one set s of its date such that no set of
\* the date has a greater (effective) weight, max_weight is the (effective)
\* weight of s, max_reps the reps of s and max_1rm the 1RM estimate of that
\* weight at the reps of s.
C1_SameMaxSet ==
    SmDone =>
        \A e \in Sessions :
            \E s \in RowsOn(e.date) :
                /\ \A r \in RowsOn(e.date) :
                       RLe(EffectiveWeight(r, e), EffectiveWeight(s, e))
                /\ e.max_weight = EffectiveWeight(s, e)
                /\ e.max_reps = history_df[s].reps
                /\ e.max_1rm = Epley(e.max_weight, history_df[s].reps)

\* a session of two sets in which the heavier set has fewer reps
C1_Witness ==
    /\ SmDone
    /\ \E e \in Sessions :
           /\ e.sets = 2
           /\ \E r \in RowsOn(e.date) :
                  /\ RLt(history_df[r].weight, e.max_weight)
                  /\ history_df[r].reps > e.max_reps

RECURSIVE SumOver(_, _)
SumOver(S, f) ==
    IF S = {} THEN Zero
    ELSE LET i == CHOOSE x \in S : TRUE
         IN  RAdd(f[i], SumOver(S \ {i}, f))

C3_OnePerDate ==
    (SmDone /\ history_df # <<>>) =>
        /\ {e.date : e \in Sessions} =
               {<<history_df[i].date[1], 0>> : i \in 1..Len(history_df)}
        /\ \A k \in 1..(Len(session_df) - 1) :
               /\ session_df[k].date # session_df[k + 1].date
               /\ TsLe(session_df[k].date, session_df[k + 1].date)

\* an input that is not in date order, and one with two times on one day
C3_Witness ==
    /\ SmDone
    /\ Len(history_df) = 2
    /\ \/ history_df[1].date[1] > history_df[2].date[1] /\ Len(session_df) = 2
       \/ /\ history_df[1].date[1] = history_df[2].date[1]
          /\ history_df[1].date # history_df[2].date
          /\ Len(session_df) = 1

-----------------------------------------------------------------------------
(* Claims about convert_unit, under ConvertSpec.                           *)

CvConverted == cv_pc \in {"converted", "back"}

\* what one unit is in kg; a unit the code does not name counts as kg
KgPer(u) ==
    CASE u = "lb" -> Rat(453592, 1000000)
      [] u \in {"notch", "notch/plate"} -> Rat(5, 2)
      [] OTHER -> Num(1)

\* C9 as stated: an unrecognized unit is treated as kg, whichever side it
\* is on: the result is that of convert_unit with 'kg' in its place.
C9_UnknownTreatedAsKg ==
    CvConverted =>
        /\ cv_from \notin KnownUnits => cv_result = RDiv(cv_value, KgPer(cv_to))
        /\ cv_to \notin KnownUnits => cv_result = RMul(cv_value, KgPer(cv_from))

\* C9 as amended: convert_unit yields a number for every unit string; with
\* an unrecognized from_unit it returns the value unchanged whatever
\* to_unit is, and with an unrecognized to_unit it returns the value in kg.
C9_UnknownPassThrough ==
    CvConverted =>
        /\ IsRat(cv_result)
        /\ cv_from \notin KnownUnits => cv_result = cv_value
        /\ cv_to \notin KnownUnits => cv_result = RMul(cv_value, KgPer(cv_from))

\* a value converted from an unknown unit to lb, and one from lb to an
\* unknown unit
C9_Witness ==
    /\ CvConverted
    /\ cv_value = Num(23)
    /\ \/ cv_from = "stone" /\ cv_to = "lb" /\ cv_result = Num(23)
       \/ cv_from = "lb" /\ cv_to = "stone" /\ cv_result # cv_value

\* C10: for u1, u2 in {kg, lb, notch} and v >= 0, v converted from u1 to u2
\* and back from u2 to u1 is v again.
C10_RoundTrip ==
    (cv_pc = "back" /\ cv_from \in {"kg", "lb", "notch"} /\ cv_to \in {"kg", "lb", "notch"}) =>
        cv_back = cv_value

\* 23 lb to notch and back, the notch value being off the lb grid
C10_Witness ==
    /\ cv_pc = "back"
    /\ cv_value = Num(23)
    /\ cv_from = "lb"
    /\ cv_to = "notch"
    /\ cv_result # cv_value
    /\ cv_result[2] # 1

-----------------------------------------------------------------------------
(* Claims about get_pr_records, under RecordsSpec.                         *)

PrDone == pr_pc = "done"

\* the indices of the rows of the table that belong to exercise name
RowsOf(name) == {i \in 1..Len(workout_logs) : workout_logs[i].exercise_name = name}

\* the calendar dates of the rows in I, the time of day dropped
DatesOf(I) == {<<workout_logs[i].date[1], 0>> : i \in I}

\* seq lists exactly the dates D, each once, most recent first
ListsMostRecentFirst(seq, D) ==
    /\ {seq[k] : k \in 1..Len(seq)} = D
    /\ \A k \in 1..(Len(seq) - 1) : seq[k + 1][1] < seq[k][1]

\* C5: best_weight of every exercise in the result is the least logged
\* weight over all its rows when the exercise is assisted and the greatest
\* otherwise.
C5_BestWeight ==
    PrDone =>
        \A name \in DOMAIN pr_dict :
            /\ \E i \in RowsOf(name) : workout_logs[i].weight = pr_dict[name].best_weight
            /\ \A i \in RowsOf(name) :
                   IF is_assisted_exercise(name)
                   THEN RLe(pr_dict[name].best_weight, workout_logs[i].weight)
                   ELSE RLe(workout_logs[i].weight, pr_dict[name].best_weight)

\* an assisted exercise with two different weights, the lesser one its record
C5_Witness ==
    /\ PrDone
    /\ \E name \in DOMAIN pr_dict :
           /\ is_assisted_exercise(name)
           /\ \E i \in RowsOf(name) : workout_logs[i].weight # pr_dict[name].best_weight

\* C6: best_weight_dates lists exactly the dates of the rows whose weight
\* equals best_weight, each date once, most recent first.
C6_BestWeightDates ==
    PrDone =>
        \A name \in DOMAIN pr_dict :
            ListsMostRecentFirst(
                pr_dict[name].best_weight_dates,
                DatesOf({i \in RowsOf(name) :
                            workout_logs[i].weight = pr_dict[name].best_weight}))

\* the record weight tied on two dates
C6_Witness ==
    /\ PrDone
    /\ \E name \in DOMAIN pr_dict : Len(pr_dict[name].best_weight_dates) = 2

\* C7: best_volume is the greatest weight x reps of a single row, and
\* best_volume_dates lists the dates of the rows with exactly that value,
\* most recent first.
C7_BestVolume ==
    PrDone =>
        \A name \in DOMAIN pr_dict :
            LET vol(i) == RMul(workout_logs[i].weight, Num(workout_logs[i].reps))
                best == pr_dict[name].best_volume
            IN  /\ \E i \in RowsOf(name) : vol(i) = best
                /\ \A i \in RowsOf(name) : RLe(vol(i), best)
                /\ ListsMostRecentFirst(pr_dict[name].best_volume_dates,
                                        DatesOf({i \in RowsOf(name) : vol(i) = best}))

\* two sets of one exercise on one day: the day's total exceeds the record
C7_Witness ==
    /\ PrDone
    /\ \E name \in DOMAIN pr_dict :
           \E i, j \in RowsOf(name) :
               /\ i # j
               /\ workout_logs[i].date[1] = workout_logs[j].date[1]
               /\ pr_dict[name].best_volume =
                      RMul(workout_logs[i].weight, Num(workout_logs[i].reps))

-----------------------------------------------------------------------------
(* Claims about the entry form, under FormSpec.                            *)

\* the form shows a copied session
FmCopied == form.template # None

\* the sets of the form that have a set of the template behind them
TemplatedSets ==
    IF FmCopied
    THEN {i \in 1..Len(form.widgets) : i <= Len(form.template.sets)}
    ELSE {}

\* the weight of set i of the template, in the effective unit of the form
TemplateWeight(i) ==
    IF form.template.unit = form.effective_unit
    THEN form.template.sets[i].weight
    ELSE RDiv(RMul(form.template.sets[i].weight, KgPer(form.template.unit)),
              KgPer(form.effective_unit))

Ascending(list) == \A i \in 1..(Len(list) - 1) : RLe(list[i], list[i + 1])

\* C8: when a session is copied into the form, for every templated set the
\* template weight converted into the effective unit is a member of the
\* weight options offered for that set, the options are sorted and keep
\* every value of the unit's base ladder, the default weight is that value
\* and the default selection index points exactly at it.
C8_DefaultIsExactMember ==
    \A i \in TemplatedSets :
        LET w == form.widgets[i]
        IN  /\ w.default_weight = TemplateWeight(i)
            /\ \E k \in 1..Len(w.options) : w.options[k] = TemplateWeight(i)
            /\ w.options[w.weight_index + 1] = TemplateWeight(i)
            /\ Ascending(w.options)
            /\ \A k \in 1..Len(get_weight_options(form.effective_unit)) :
                   \E j \in 1..Len(w.options) :
                       w.options[j] = get_weight_options(form.effective_unit)[k]

\* a session logged at 23 lb is copied: 23 is not on the lb ladder, the
\* options of the set hold it between 20 and 25 and the index points at it
C8_Witness ==
    /\ FmCopied
    /\ form.template.unit = "lb"
    /\ form.effective_unit = "lb"
    /\ \E i \in TemplatedSets :
           LET w == form.widgets[i]
           IN  /\ form.template.sets[i].weight = Num(23)
               /\ \A k \in 1..Len(get_weight_options("lb")) :
                      get_weight_options("lb")[k] # Num(23)
               /\ Len(w.options) = Len(get_weight_options("lb")) + 1
               /\ w.options[w.weight_index + 1] = Num(23)
               /\ w.options[w.weight_index] = Num(20)
               /\ w.options[w.weight_index + 2] = Num(25)

-----------------------------------------------------------------------------
(* Claims about calculate_1rm, under OneRmSpec.                            *)

RmDone == rm_pc \in {"first", "second"}

\* C11: calculate_1rm(w, r) is w itself, of either sign or zero, whenever
\* r <= 1, and w * (1 + r / 30) for every r > 1; it yields a number for
\* every input.
C11_EpleyContract ==
    RmDone =>
        /\ IsRat(rm_result)
        /\ rm_reps <= 1 => rm_result = rm_weight
        /\ rm_reps > 1 => rm_result = RDiv(RMul(rm_weight, Num(30 + rm_reps)), Num(30))

\* a negative weight at 1 rep, returned as it is, and at 8 reps, scaled by
\* 38/30 without clamping
C11_Witness ==
    /\ rm_pc = "second"
    /\ rm_weight = Num(-10)
    /\ rm_reps = 1 /\ rm_result = Num(-10)
    /\ rm_reps2 = 8 /\ rm_result2 = Rat(-38, 3)

\* C12: for a fixed weight w > 0 and rep counts r2 > r1 > 1 the estimate at
\* r2 is strictly greater than the estimate at r1.
C12_StrictlyIncreasing ==
    (rm_pc = "second" /\ RLt(Zero, rm_weight) /\ rm_reps > 1 /\ rm_reps2 > rm_reps) =>
        RLt(rm_result, rm_result2)

\* 23 at 2 and at 3 reps: two estimates one rep apart
C12_Witness ==
    /\ rm_pc = "second"
    /\ rm_weight = Num(23)
    /\ rm_reps = 2 /\ rm_reps2 = 3
    /\ rm_result = Rat(23 * 32, 30)
    /\ rm_result2 = Rat(23 * 33, 30)

-----------------------------------------------------------------------------
(* More claims about calculate_session_metrics, under MetricsSpec.         *)

\* the sum over the rows of date d of (raw weight in kg) x reps
RawVolumeOn(d) ==
    SumOver(RowsOn(d),
            [i \in 1..Len(history_df) |->
                RMul(InKg(history_df[i].weight, history_df[i].unit),
                     Num(history_df[i].reps))])

\* C13: for an assisted exercise aggregated without a bodyweight the call
\* completes and every session carries the metrics of the raw-weight rule:
\* the max set is a set of greatest logged weight, max_weight, max_reps and
\* max_1rm come from it, and total_volume is the sum of the raw volumes.
C13_NoBodyweightRawRule ==
    (SmDone /\ is_assisted_exercise(exercise_name) /\ bodyweight = None) =>
        \A e \in Sessions :
            /\ \E s \in RowsOn(e.date) :
                   /\ \A r \in RowsOn(e.date) :
                          RLe(history_df[r].weight, history_df[s].weight)
                   /\ e.max_weight = history_df[s].weight
                   /\ e.max_reps = history_df[s].reps
                   /\ e.max_1rm = Epley(history_df[s].weight, history_df[s].reps)
            /\ e.total_volume = RawVolumeOn(e.date)

\* an assisted exercise without a bodyweight, two sessions of one set each
C13_Witness ==
    /\ SmDone
    /\ is_assisted_exercise(exercise_name)
    /\ bodyweight = None
    /\ Len(session_df) = 2
    /\ \A k \in 1..2 : \E i \in RowsOn(session_df[k].date) :
           session_df[k].max_weight = history_df[i].weight

-----------------------------------------------------------------------------
(* More claims about get_pr_records, under RecordsSpec.                    *)

\* the exercises that have no row when the records are built
WithoutHistory == {name \in PrNames : RowsOf(name) = {}}

\* C14 as stated: an exercise whose set history is empty gets a record
\* whose best_weight, best_reps and best_volume are zero and whose date
\* lists are empty.
C14_EmptyHistoryZeroRecord ==
    PrDone =>
        \A name \in WithoutHistory :
            /\ name \in DOMAIN pr_dict
            /\ pr_dict[name].best_weight = Zero
            /\ pr_dict[name].best_reps = 0
            /\ pr_dict[name].best_volume = Zero
            /\ pr_dict[name].best_weight_dates = <<>>
            /\ pr_dict[name].best_reps_dates = <<>>
            /\ pr_dict[name].best_volume_dates = <<>>

\* C14 as amended: the call completes, an exercise whose set history is
\* empty gets no record at all, and every exercise that has rows gets one.
C14_EmptyHistoryNoRecord ==
    PrDone =>
        /\ \A name \in WithoutHistory : name \notin DOMAIN pr_dict
        /\ \A name \in PrNames \ WithoutHistory : name \in DOMAIN pr_dict

\* an exercise that was listed and whose rows were gone when its query
\* ran, next to an exercise that has a record
C14_Witness ==
    /\ PrDone
    /\ \E name \in exercises : name \in WithoutHistory /\ name \notin DOMAIN pr_dict
    /\ DOMAIN pr_dict # {}

-----------------------------------------------------------------------------
(* A claim about calling calculate_session_metrics twice, under            *)
(* RepeatSpec.                                                             *)

-----------------------------------------------------------------------------
(* A claim about unsorted input of calculate_session_metrics, under        *)
(* RegroupSpec.                                                            *)

\* the number of runs of consecutive rows of calendar day d in the input
RunsOf(d) ==
    Cardinality({i \in 1..Len(history_df) :
                    /\ history_df[i].date[1] = d
                    /\ (i = 1 \/ history_df[i - 1].date[1] # d)})

\* the days that come in two or more runs
SplitDays == {d \in {ts[1] : ts \in SmDates} : RunsOf(d) >= 2}

\* the entries of the result for calendar day d
EntriesOf(d) == {k \in 1..Len(session_df) : session_df[k].date[1] = d}

\* C16 as stated: the input is not re-sorted, and a date that appears in
\* two non-contiguous runs gets two separate session entries.
C16_OneEntryPerRun ==
    SmDone => \A d \in SplitDays : Cardinality(EntriesOf(d)) = RunsOf(d)

\* C16 as amended: the input is sorted by date before it is grouped, so a
\* date that appears in non-contiguous runs gets one session entry, which
\* counts all the rows of the date.
C16_OneEntryPerDate ==
    SmDone =>
        \A d \in SplitDays :
            /\ Cardinality(EntriesOf(d)) = 1
            /\ \A k \in EntriesOf(d) :
                   session_df[k].sets =
                       Cardinality({i \in 1..Len(history_df) : history_df[i].date[1] = d})

\* day 1, day 2, day 1: two sessions, that of day 1 with two sets
C16_Witness ==
    /\ SmDone
    /\ Len(history_df) = 3
    /\ history_df[1].date[1] = 1 /\ history_df[2].date[1] = 2 /\ history_df[3].date[1] = 1
    /\ Len(session_df) = 2
    /\ session_df[1].date = <<1, 0>> /\ session_df[1].sets = 2
    /\ session_df[2].date = <<2, 0>> /\ session_df[2].sets = 1

-----------------------------------------------------------------------------
(* A claim about the unit of a session, under MetricsSpec.                 *)

\* the units of the sets of session e in the order the loop collected them
SessionUnits(e) == UnitsOn(sorted_df, e.date)

\* the index of the first set of the session logged in unit u
FirstIndex(e, u) ==
    CHOOSE i \in 1..Len(SessionUnits(e)) :
        /\ SessionUnits(e)[i] = u
        /\ \A j \in 1..(i - 1) : SessionUnits(e)[j] # u

\* the most frequent units of the session
Modes(e) ==
    {u \in Range(SessionUnits(e)) :
        \A v \in Range(SessionUnits(e)) :
            Count(SessionUnits(e), v) <= Count(SessionUnits(e), u)}

\* C17: the unit of every session is a most frequent unit of its sets, and
\* among equally frequent units it is the one that occurs first in the
\* session's set list.
C17_FirstOccurrenceTieBreak ==
    SmDone =>
        \A e \in Sessions :
            /\ e.unit \in Modes(e)
            /\ \A v \in Modes(e) : FirstIndex(e, e.unit) <= FirstIndex(e, v)

-----------------------------------------------------------------------------
(* Claims about sets of no reps or no weight, under EdgeSpec.              *)

\* the volume of row i in session e: its (effective) weight in kg x reps
VolumeOf(i, e) ==
    RMul(IF AssistedRun
         THEN InKg(EffectiveWeight(i, e), e.unit)
         ELSE InKg(history_df[i].weight, history_df[i].unit),
         Num(history_df[i].reps))

\* the rows of the session that have reps and an (effective) weight above 0
Lifting(e) ==
    {i \in RowsOn(e.date) :
        history_df[i].reps > 0 /\ RLt(Zero, EffectiveWeight(i, e))}

\* C18: in every session each set with reps = 0 or an (effective) weight
\* <= 0 adds exactly zero to total_volume, which is the sum of the volumes
\* of the other sets; such a set is still the max set when its (effective)
\* weight is the greatest.
C18_NoWeightNoVolume ==
    SmDone =>
        \A e \in Sessions :
            /\ e.total_volume =
                   SumOver(Lifting(e), [i \in 1..Len(history_df) |-> VolumeOf(i, e)])
            /\ \A r \in RowsOn(e.date) : RLe(EffectiveWeight(r, e), e.max_weight)

\* the rows of the session that have reps
WithReps(e) == {i \in RowsOn(e.date) : history_df[i].reps > 0}

\* C19 as stated: rows with reps = 0 are left out of the computation: the
\* metrics of a session that has rows with reps are those of these rows
\* alone.
C19_ZeroRepsExcluded ==
    SmDone =>
        \A e \in Sessions :
            WithReps(e) # {} =>
                /\ \E s \in WithReps(e) :
                       /\ \A r \in WithReps(e) :
                              RLe(EffectiveWeight(r, e), EffectiveWeight(s, e))
                       /\ e.max_weight = EffectiveWeight(s, e)
                       /\ e.max_reps = history_df[s].reps
                       /\ e.max_1rm = Epley(e.max_weight, e.max_reps)
                /\ e.total_volume =
                       SumOver(WithReps(e), [i \in 1..Len(history_df) |-> VolumeOf(i, e)])

\* C19 as amended: rows with reps = 0 take part in the computation: they
\* count in the session's number of sets and compete for the max set, so a
\* row of 0 reps whose (effective) weight is above that of every other set
\* of the session gives max_weight and max_1rm that weight and max_reps 0;
\* to total_volume they add zero.
C19_ZeroRepsCounted ==
    SmDone =>
        \A e \in Sessions :
            /\ e.sets = Cardinality(RowsOn(e.date))
            /\ e.total_volume =
                   SumOver(WithReps(e), [i \in 1..Len(history_df) |-> VolumeOf(i, e)])
            /\ \A z \in RowsOn(e.date) \ WithReps(e) :
                   (\A r \in RowsOn(e.date) \ {z} :
                        RLt(EffectiveWeight(r, e), EffectiveWeight(z, e))) =>
                       /\ e.max_weight = EffectiveWeight(z, e)
                       /\ e.max_reps = 0
                       /\ e.max_1rm = EffectiveWeight(z, e)

\* a plain session of 200 lb x 0 and 10 lb x 8: the set of 0 reps is the
\* max set, and the volume is that of the other set
C19_Witness ==
    /\ SmDone
    /\ ~AssistedRun
    /\ \E e \in Sessions :
           /\ e.sets = 2
           /\ e.max_weight = Num(200)
           /\ e.max_reps = 0
           /\ e.max_1rm = Num(200)
           /\ \E i \in WithReps(e) : history_df[i].weight = Num(10)
           /\ e.total_volume = RMul(Rat(453592, 1000000), Num(80))

-----------------------------------------------------------------------------
(* A claim about the set counts, under MetricsSpec.                        *)

\* the set counts of the first k sessions, added up
RECURSIVE SetsUpTo(_)
SetsUpTo(k) == IF k = 0 THEN 0 ELSE session_df[k].sets + SetsUpTo(k - 1)

\* C20: every emitted session has a set count of at least 1, the set
\* counts add up to the number of input rows, and an empty input gives an
\* empty result.
C20_SetCounts ==
    SmDone =>
        /\ \A k \in 1..Len(session_df) : session_df[k].sets >= 1
        /\ SetsUpTo(Len(session_df)) = Len(history_df)
        /\ history_df = <<>> => session_df = <<>>

\* two rows of two days, a session of one set for each
C20_Witness ==
    /\ SmDone
    /\ Len(history_df) = 2
    /\ Len(session_df) = 2
    /\ session_df[1].sets = 1
    /\ session_df[2].sets = 1

-----------------------------------------------------------------------------
(* Further claims about the entry form, under FormSpec.                    *)

\* the radio option a unit of the store is shown as
ShownAs(u) == UnitOptions[UnitIndex(u) + 1]

\* the user has moved the radio away from the option the copy gave it
UnitChanged == FmCopied /\ unit_radio # ShownAs(form.template.unit)

\* C21: after a session is copied into the form, the effective unit is the
\* copied session's own unit until the user selects a different unit in the
\* radio; from that change on it is the unit the user selected.
C21_SelectedUnitTakesOver ==
    FmCopied =>
        form.effective_unit =
            IF UnitChanged THEN unit_radio ELSE form.template.unit

\* the set of the copied data with the k-th smallest set_order
SetByOrder(k) ==
    CHOOSE s \in Range(copied_data.sets) :
        Cardinality({t \in Range(copied_data.sets) : t.set_order < s.set_order}) = k - 1

\* the form shows one pair of defaults for every set of the copied data, in
\* the order of set_order
OnePairPerCopiedSet ==
    /\ ~form.error
    /\ Len(form.widgets) = Len(copied_data.sets)
    /\ \A i \in 1..Len(form.widgets) :
           /\ form.widgets[i].default_weight = SetByOrder(i).weight
           /\ form.widgets[i].default_reps =
                  IF SetByOrder(i).reps \in 0..30 THEN SetByOrder(i).reps ELSE 0

\* C22: copying a session of n sets yields exactly n default (weight, reps)
\* pairs, the i-th from the set with the i-th smallest set_order, for every
\* n a session can have.
C22_CopyYieldsOnePairPerSet ==
    [][copied_at' # copied_at => OnePairPerCopiedSet']_vars

\* C23: for every templated set the default reps are the reps of the
\* template when they are one of 0..30 and 0 otherwise, and the reps
\* selected in the form are that default, a value of the fixed list 0..30
\* which template values never extend.
C23_RepsDefaultOrZero ==
    \A i \in TemplatedSets :
        LET w == form.widgets[i]
            reps == form.template.sets[i].reps
        IN  /\ w.default_reps = IF reps \in 0..30 THEN reps ELSE 0
            /\ w.reps_index \in 0..30
            /\ get_reps_options[w.reps_index + 1] = w.default_reps

\* a session with a set of 40 reps and a set of 8 reps is copied: the
\* first default is 0, the second 8
C23_Witness ==
    /\ FmCopied
    /\ \E i, j \in TemplatedSets :
           /\ form.template.sets[i].reps = 40
           /\ form.widgets[i].default_reps = 0
           /\ form.widgets[i].reps_index = 0
           /\ form.template.sets[j].reps = 8
           /\ form.widgets[j].default_reps = 8
           /\ form.widgets[j].reps_index = 8

-----------------------------------------------------------------------------
(* Claims about the rows written to workout_logs, under InputSpec and      *)
(* ImportSpec.                                                             *)

\* C24: after any sequence of entry-form saves, set edits and CSV imports
\* every row of the store has weight >= 0, reps >= 0 and is not a row of 0
\* reps with a weight above 0.
C24_StoredRowsValid ==
    \A i \in 1..Len(workout_logs) :
        /\ RLe(Zero, workout_logs[i].weight)
        /\ workout_logs[i].reps >= 0
        /\ ~(workout_logs[i].reps = 0 /\ RLt(Zero, workout_logs[i].weight))

-----------------------------------------------------------------------------
(* A further claim about convert_unit, under ConvertSpec.                  *)

\* the unit an alias stands for
Unaliased(u) == IF u = "notch/plate" THEN "notch" ELSE u

\* C25: convert_unit pivots on kg with fixed factors, 0.453592 kg for one lb
\* and 2.5 kg for one notch: for all a, b in {kg, lb, notch} the result of
\* convert_unit(v, a, b) is v * factor(a) / factor(b), and the alias
\* 'notch/plate' gives the result of 'notch' in either position.
C25_KgPivotFixedFactors ==
    (CvConverted /\ Unaliased(cv_from) \in {"kg", "lb", "notch"}
                 /\ Unaliased(cv_to) \in {"kg", "lb", "notch"}) =>
        LET factor == [u \in {"kg", "lb", "notch"} |->
                          IF u = "lb" THEN Rat(453592, 1000000)
                          ELSE IF u = "notch" THEN Rat(5, 2)
                          ELSE Num(1)]
        IN  cv_result = RDiv(RMul(cv_value, factor[Unaliased(cv_from)]),
                             factor[Unaliased(cv_to)])

\* 23 notch/plate converted to lb: 23 * 2.5 / 0.453592
C25_Witness ==
    /\ CvConverted
    /\ cv_value = Num(23)
    /\ cv_from = "notch/plate"
    /\ cv_to = "lb"
    /\ cv_result = Rat(57500000, 453592)

-----------------------------------------------------------------------------
(* A claim about the two copies of the session computation in              *)
(* calculate_session_metrics, under PositionSpec.                          *)

\* the sets of date d in the order the loop meets them
SetsOn(d) ==
    LET rows == SelectSeq(sorted_df, LAMBDA row : DateOf(row.date) = d)
    IN  [i \in 1..Len(rows) |-> SetOf(rows[i])]

\* C27: the metrics of a session do not depend on its position in the
\* input: for the same list of sets, exercise name and bodyweight the code
\* after the loop gives the last date group the max_weight, max_reps,
\* total_volume, max_1rm, set count and unit the loop body gives an earlier
\* date group.
C27_SameMetricsAnyPosition ==
    SmDone =>
        \A j, k \in 1..Len(session_df) :
            SetsOn(session_df[j].date) = SetsOn(session_df[k].date) =>
                /\ session_df[j].max_weight = session_df[k].max_weight
                /\ session_df[j].max_reps = session_df[k].max_reps
                /\ session_df[j].total_volume = session_df[k].total_volume
                /\ session_df[j].max_1rm = session_df[k].max_1rm
                /\ session_df[j].sets = session_df[k].sets
                /\ session_df[j].unit = session_df[k].unit

\* two dates with the same two sets, 10 kg x 8 and then 20 lb x 5: the
\* earlier and the last session both report 20 with 5 reps and the same unit
C27_Witness ==
    /\ SmDone
    /\ Len(session_df) = 2
    /\ session_df[1].date # session_df[2].date
    /\ SetsOn(session_df[1].date) = SetsOn(session_df[2].date)
    /\ Len(SetsOn(session_df[2].date)) = 2
    /\ SetsOn(session_df[2].date)[1].weight = Num(10)
    /\ SetsOn(session_df[2].date)[2].weight = Num(20)
    /\ session_df[1].max_reps = 5
    /\ session_df[2].max_reps = 5
    /\ session_df[1].unit = session_df[2].unit

-----------------------------------------------------------------------------
(* A further claim about get_pr_records, under RecordsSpec.                *)

\* the weight of row i of the table in kg
KgOf(i) == InKg(workout_logs[i].weight, workout_logs[i].unit)

\* C28: for an exercise that is not assisted, best_weight with
\* best_weight_unit is the heaviest row of its history when the rows are
\* compared in kg, and best_volume is the volume of the set whose volume in
\* kg is the greatest.
C28_BestComparedInKg ==
    PrDone =>
        \A name \in DOMAIN pr_dict :
            ~is_assisted_exercise(name) =>
                /\ \E i \in RowsOf(name) :
                       /\ workout_logs[i].weight = pr_dict[name].best_weight
                       /\ workout_logs[i].unit = pr_dict[name].best_weight_unit
                       /\ \A j \in RowsOf(name) : RLe(KgOf(j), KgOf(i))
                /\ \E i \in RowsOf(name) :
                       /\ pr_dict[name].best_volume =
                              RMul(workout_logs[i].weight, Num(workout_logs[i].reps))
                       /\ \A j \in RowsOf(name) :
                              RLe(RMul(KgOf(j), Num(workout_logs[j].reps)),
                                  RMul(KgOf(i), Num(workout_logs[i].reps)))

-----------------------------------------------------------------------------
(* A further claim about the weight options of the entry form, under       *)
(* FormSpec.                                                               *)

\* C29: after the ladder extension for a copied session the weight options
\* of every set are sorted strictly ascending, so no value appears twice
\* even when several templated sets share a weight, they start at 0, they
\* contain every value of the base ladder of the effective unit, and every
\* value added to the ladder is the weight of a templated set.
C29_OptionsStrictlyAscending ==
    FmCopied =>
        \A i \in 1..Len(form.widgets) :
            LET options == form.widgets[i].options
                ladder == get_weight_options(form.effective_unit)
            IN  /\ \A k \in 1..(Len(options) - 1) : RLt(options[k], options[k + 1])
                /\ options[1] = Zero
                /\ Range(ladder) \subseteq Range(options)
                /\ \A k \in 1..Len(options) :
                       \/ options[k] \in Range(ladder)
                       \/ \E j \in 1..Len(form.template.sets) :
                              options[k] = TemplateWeight(j)

\* a session of two sets of 23 lb is copied: the options hold 23 once
C29_Witness ==
    /\ FmCopied
    /\ form.effective_unit = "lb"
    /\ Len(form.template.sets) = 2
    /\ form.template.sets[1].weight = Num(23)
    /\ form.template.sets[2].weight = Num(23)
    /\ Len(form.widgets) = 2
    /\ \A i \in 1..2 :
           /\ Len(form.widgets[i].options) = Len(get_weight_options("lb")) + 1
           /\ Cardinality({k \in 1..Len(form.widgets[i].options) :
                              form.widgets[i].options[k] = Num(23)}) = 1


-----------------------------------------------------------------------------
(* Claims about the cookie persistence, under CookieSpec.                  *)

CookieCycle ==
    {<<"start", "access_token_set">>, <<"access_token_set", "both_set">>,
     <<"both_set", "start">>}

IsSet(i, cookie) ==
    cookie_calls[i].op = "set" /\ cookie_calls[i].cookie = cookie

\* both cookies of session k went out, the access token first
BothWritten(k) ==
    \E i, j \in DOMAIN cookie_calls :
        /\ i < j
        /\ cookie_calls[i] = SetCookie(ACCESS_TOKEN_COOKIE, k)
        /\ cookie_calls[j] = SetCookie(REFRESH_TOKEN_COOKIE, k)

OnlyCycleMoves ==
    [][cookie_set_state' # cookie_set_state
          => <<cookie_set_state, cookie_set_state'>> \in CookieCycle]_vars

RefreshAfterAccess ==
    \A j \in DOMAIN cookie_calls :
        IsSet(j, REFRESH_TOKEN_COOKIE)
            => \E i \in 1..(j - 1) : IsSet(i, ACCESS_TOKEN_COOKIE)

LoginWritesBoth == \A k \in 1..MaxLogins : (user = k) ~> BothWritten(k)

\* C30: the cookie state machine never gets stuck: cookie_set_state only
\* moves start -> access_token_set -> both_set -> start, no refresh-token
\* cookie is written before an access-token cookie, and whenever a session
\* is set by set_session_state, in whatever state the machine is, both
\* cookies of that session are eventually written.
C30_CookieMachineNeverStuck ==
    OnlyCycleMoves /\ []RefreshAfterAccess /\ LoginWritesBoth

=============================================================================
